---------------------------- MODULE Spec2Model ----------------------------
(***************************************************************************)
(* A model of the detection post-processing of wsiyolo: the duplicate      *)
(* (IoU) filter, the improved polygon merger, the adaptive polygon         *)
(* simplifier and the pipeline stage that applies it.                      *)
(*                                                                         *)
(* Numbers.  Coordinates are integers (pixels).  A confidence is an        *)
(* integer number of hundredths (0.85 is 85).  Areas of polygons are kept  *)
(* doubled (Area2) so that the shoelace sum stays an integer.  A           *)
(* comparison of a ratio with a decimal threshold is cross-multiplied.     *)
(*                                                                         *)
(* A Prediction is a record [class_name, box, conf, polygon]; box is       *)
(* <<x1, y1, x2, y2>> (start.x, start.y, end.x, end.y); polygon is a       *)
(* sequence of points <<x, y>>.  The code only ever tests a missing        *)
(* polygon by truthiness ("if pred.polygon"), which None and [] fail       *)
(* alike, so both are the empty sequence here.                             *)
(*                                                                         *)
(* A value that an operator uses more than once is bound as the parameter  *)
(* of a local operator, the way the code binds it to a local variable.     *)
(***************************************************************************)
EXTENDS Integers, Sequences, FiniteSets, TLC

VARIABLES
    raw,        \* the list of predictions the run started from
    input,      \* the list handed to the operation performed last
    output,     \* the list that operation returned
    ops,        \* the names of the operations performed so far, in order
    sim         \* the state of one simplify_polygon call (see SimInit)

vars == <<raw, input, output, ops, sim>>

----------------------------------------------------------------------------
(* Small helpers *)

Range(s) == {s[i] : i \in DOMAIN s}

Max(a, b) == IF a >= b THEN a ELSE b

Min(a, b) == IF a <= b THEN a ELSE b

Abs(a) == IF a >= 0 THEN a ELSE -a

\* All sequences over S of length at most n.
SeqsUpTo(S, n) == UNION {[1..k -> S] : k \in 0..n}

----------------------------------------------------------------------------
(* data_structures.py: Box *)

BoxOf(x1, y1, x2, y2) == <<x1, y1, x2, y2>>

\* Box.area
BoxArea(b) == (b[3] - b[1]) * (b[4] - b[2])

\* Box.intersection_area
intersection_area(a, b) ==
    Max(0, Min(a[3], b[3]) - Max(a[1], b[1]))
  * Max(0, Min(a[4], b[4]) - Max(a[2], b[2]))

\* The denominator of Box.iou.
union_area(a, b) == BoxArea(a) + BoxArea(b) - intersection_area(a, b)

\* Box.iou(a, b) > tenths / 10.  iou is inter / union when union > 0 and 0
\* otherwise; thresholds are non-negative, so 0 never exceeds one.
IouAbove_Ge(a, b, tenths) ==
    /\ union_area(a, b) > 0
    /\ 10 * intersection_area(a, b) >= tenths * union_area(a, b)

IouAbove(a, b, tenths) ==
    /\ union_area(a, b) > 0
    /\ 10 * intersection_area(a, b) > tenths * union_area(a, b)


----------------------------------------------------------------------------
(* shapely.geometry.Polygon, as far as the code uses it.  The library is    *)
(* not part of the repository; these operators state what its calls         *)
(* return for rings with integer vertices.                                  *)

\* Polygon(coords).exterior.coords: the ring, closed (the first point is
\* repeated at the end unless coords already ends with it).
ExteriorCoords(coords) ==
    IF coords[1] = coords[Len(coords)] THEN coords
    ELSE Append(coords, coords[1])

\* list(polygon.exterior.coords[:-1]): the ring without its closing point.
OpenCoords(ext) == SubSeq(ext, 1, Len(ext) - 1)

\* (q - p) x (r - p)
Cross(p, q, r) ==
    (q[1] - p[1]) * (r[2] - p[2]) - (q[2] - p[2]) * (r[1] - p[1])

\* (p - q) . (r - q)
Dot(p, q, r) ==
    (p[1] - q[1]) * (r[1] - q[1]) + (p[2] - q[2]) * (r[2] - q[2])

\* polygon.area, doubled: the absolute value of the shoelace sum, here
\* summed over the edges lo..hi by halves.
RECURSIVE Shoelace(_, _, _)
Shoelace(ext, lo, hi) ==
    IF lo > hi THEN 0
    ELSE IF lo = hi
    THEN ext[lo][1] * ext[lo + 1][2] - ext[lo + 1][1] * ext[lo][2]
    ELSE LET mid == (lo + hi) \div 2
         IN  Shoelace(ext, lo, mid) + Shoelace(ext, mid + 1, hi)

Area2(ext) == Abs(Shoelace(ext, 1, Len(ext) - 1))

\* r, known to be collinear with p and q, lies on the segment pq.
InSpan(p, q, r) ==
    /\ Min(p[1], q[1]) <= r[1] /\ r[1] <= Max(p[1], q[1])
    /\ Min(p[2], q[2]) <= r[2] /\ r[2] <= Max(p[2], q[2])

\* The closed segments ab and cd share a point.
SegmentsMeet(a, b, c, d) ==
    LET d1 == Cross(c, d, a)
        d2 == Cross(c, d, b)
        d3 == Cross(a, b, c)
        d4 == Cross(a, b, d)
    IN  \/ /\ (d1 > 0 /\ d2 < 0) \/ (d1 < 0 /\ d2 > 0)
           /\ (d3 > 0 /\ d4 < 0) \/ (d3 < 0 /\ d4 > 0)
        \/ d1 = 0 /\ InSpan(c, d, a)
        \/ d2 = 0 /\ InSpan(c, d, b)
        \/ d3 = 0 /\ InSpan(a, b, c)
        \/ d4 = 0 /\ InSpan(a, b, d)

\* The ring without the points that repeat their predecessor.
WithoutRepeats(ext) ==
    LET Fresh(i) == i = 1 \/ ext[i] # ext[i - 1]
        kept == SelectSeq([i \in 1..Len(ext) |-> i], Fresh)
    IN  [k \in DOMAIN kept |-> ext[kept[k]]]

\* polygon.is_valid for a closed ring: repeated points aside, at least
\* three edges, a non-zero area, consecutive edges that do not fold back on
\* each other, and no other two edges that touch or cross.
is_valid(ring) ==
    LET ext == WithoutRepeats(ring)
        n == Len(ext) - 1
    IN  /\ n >= 3
        /\ Area2(ext) > 0
        /\ \A i \in 1..n :
               LET k == IF i = n THEN 2 ELSE i + 2
               IN  ~(Cross(ext[i], ext[i + 1], ext[k]) = 0
                       /\ Dot(ext[i], ext[i + 1], ext[k]) > 0)
        /\ \A i \in 1..n : \A j \in (i + 2)..n :
               (i = 1 /\ j = n)
               \/ ~SegmentsMeet(ext[i], ext[i + 1], ext[j], ext[j + 1])

\* The least and the greatest of a non-empty set of integers.
MinOf(S) == CHOOSE x \in S : \A y \in S : x <= y

MaxOf(S) == CHOOSE x \in S : \A y \in S : x >= y

\* polygon.bounds as a Box.
bounds(ext) ==
    BoxOf(MinOf({q[1] : q \in Range(ext)}), MinOf({q[2] : q \in Range(ext)}),
          MaxOf({q[1] : q \in Range(ext)}), MaxOf({q[2] : q \in Range(ext)}))

----------------------------------------------------------------------------
(* Regions.  The set operations of shapely (within, contains,               *)
(* intersection, unary_union) are computed for rectilinear rings, the only  *)
(* valid rings the merger is given here: the plane is cut along every x     *)
(* and y of a vertex, and a polygon is the set of grid cells inside it.     *)

\* The members of a set of integers in increasing order.
SortedSeq(S) ==
    [k \in 1..Cardinality(S) |->
        CHOOSE x \in S : Cardinality({y \in S : y < x}) = k - 1]

\* The grid cut by the vertices of the rings of the sequence polys.
GridOf(polys) ==
    LET pts == UNION {Range(polys[k]) : k \in DOMAIN polys}
    IN  [xs |-> SortedSeq({q[1] : q \in pts}),
         ys |-> SortedSeq({q[2] : q \in pts})]

GridCells(g) == (1..(Len(g.xs) - 1)) \X (1..(Len(g.ys) - 1))

\* The point (cx2/2, cy2/2), on no grid line, is inside the ring: a ray to
\* the right crosses an odd number of its vertical edges.
InsideRing(ext, cx2, cy2) ==
    Cardinality({i \in 1..(Len(ext) - 1) :
                    /\ ext[i][1] = ext[i + 1][1]
                    /\ 2 * ext[i][1] > cx2
                    /\ 2 * Min(ext[i][2], ext[i + 1][2]) < cy2
                    /\ cy2 < 2 * Max(ext[i][2], ext[i + 1][2])}) % 2 = 1

CellsOf(ext, g) ==
    {c \in GridCells(g) :
        InsideRing(ext, g.xs[c[1]] + g.xs[c[1] + 1],
                        g.ys[c[2]] + g.ys[c[2] + 1])}

CellArea(c, g) ==
    (g.xs[c[1] + 1] - g.xs[c[1]]) * (g.ys[c[2] + 1] - g.ys[c[2]])

\* The area of the cells of C in the columns lo..hi, summed by halves.
RECURSIVE ColumnsArea(_, _, _, _)
ColumnsArea(C, g, lo, hi) ==
    IF lo > hi THEN 0
    ELSE IF lo = hi
    THEN LET rows == {c[2] : c \in {d \in C : d[1] = lo}}
             RECURSIVE RowsArea(_, _)
             RowsArea(a, b) ==
                 IF a > b THEN 0
                 ELSE IF a = b
                 THEN IF a \in rows THEN CellArea(<<lo, a>>, g) ELSE 0
                 ELSE RowsArea(a, (a + b) \div 2)
                      + RowsArea((a + b) \div 2 + 1, b)
         IN  RowsArea(1, Len(g.ys) - 1)
    ELSE ColumnsArea(C, g, lo, (lo + hi) \div 2)
         + ColumnsArea(C, g, (lo + hi) \div 2 + 1, hi)

RegionArea(C, g) == ColumnsArea(C, g, 1, Len(g.xs) - 1)

\* poly1.within(poly2), which is also poly2.contains(poly1).
within(ext1, ext2) ==
    LET g == GridOf(<<ext1, ext2>>)
    IN  CellsOf(ext1, g) \subseteq CellsOf(ext2, g)

\* poly1.intersection(poly2).area
intersection_poly_area(ext1, ext2) ==
    LET g == GridOf(<<ext1, ext2>>)
    IN  RegionArea(CellsOf(ext1, g) \cap CellsOf(ext2, g), g)

\* Two cells share an edge.
Adjacent(c, d) == Abs(c[1] - d[1]) + Abs(c[2] - d[2]) = 1

\* The connected part of U that holds S.
RECURSIVE Grow(_, _)
Grow(S, U) ==
    LET N == {c \in U \ S : \E d \in S : Adjacent(c, d)}
    IN  IF N = {} THEN S ELSE Grow(S \cup N, U)

\* The lowest, then leftmost, cell of a region.
FirstCell(U) ==
    CHOOSE c \in U : \A d \in U :
        c[2] < d[2] \/ (c[2] = d[2] /\ c[1] <= d[1])

\* The connected components of a region, as a sequence.
RECURSIVE Components(_)
Components(U) ==
    IF U = {} THEN <<>>
    ELSE LET C == Grow({FirstCell(U)}, U)
         IN  <<C>> \o Components(U \ C)

\* Directions: 0 east, 1 north, 2 west, 3 south.  A boundary edge of the
\* region C leaves grid point p in direction d, with C on its left.
OutEdge(C, p, d) ==
    LET i == p[1]
        j == p[2]
    IN  CASE d = 0 -> <<i, j>> \in C /\ <<i, j - 1>> \notin C
          [] d = 1 -> <<i - 1, j>> \in C /\ <<i, j>> \notin C
          [] d = 2 -> <<i - 1, j - 1>> \in C /\ <<i - 1, j>> \notin C
          [] OTHER -> <<i, j - 1>> \in C /\ <<i - 1, j - 1>> \notin C

StepTo(p, d) ==
    CASE d = 0 -> <<p[1] + 1, p[2]>>
      [] d = 1 -> <<p[1], p[2] + 1>>
      [] d = 2 -> <<p[1] - 1, p[2]>>
      [] OTHER -> <<p[1], p[2] - 1>>

\* The boundary edge that follows the edge <<p, d>> around C: at the far
\* end of the edge the walk turns right if it can, else goes straight,
\* else turns left.
NextEdge(C, e) ==
    LET q == StepTo(e[1], e[2])
        d == e[2]
    IN  IF OutEdge(C, q, (d + 3) % 4) THEN <<q, (d + 3) % 4>>
        ELSE IF OutEdge(C, q, d) THEN <<q, d>>
        ELSE <<q, (d + 1) % 4>>

\* The boundary edges of C on the grid g.
BoundaryEdges(C, g) ==
    {e \in ((1..Len(g.xs)) \X (1..Len(g.ys))) \X (0..3) :
        OutEdge(C, e[1], e[2])}

\* jump[j] takes an edge 2^j edges further along its boundary.
RECURSIVE Jumps(_, _, _)
Jumps(C, E, j) ==
    IF j = 0 THEN <<[e \in E |-> NextEdge(C, e)]>>
    ELSE LET below == Jumps(C, E, j - 1)
             last  == below[Len(below)]
         IN  Append(below, [e \in E |-> last[last[e]]])

\* The edge k edges after e, k written in binary from bit j upwards.
RECURSIVE EdgeAfter(_, _, _, _)
EdgeAfter(jump, e, k, j) ==
    IF k = 0 THEN e
    ELSE EdgeAfter(jump, IF k % 2 = 1 THEN jump[j][e] ELSE e, k \div 2, j + 1)

\* The least j with 2^j >= n.
RECURSIVE Log2(_)
Log2(n) == IF n <= 1 THEN 0 ELSE 1 + Log2((n + 1) \div 2)

\* The exterior ring of the component C, counter-clockwise from the lower
\* left corner of its first cell.  A grid point on the ring is a vertex
\* when the ring turns there or when it is a vertex of an input ring (the
\* overlay keeps the nodes of its input).
ExteriorOf(C, g, nodes) ==
    LET first == <<FirstCell(C), 0>>
        Point(e) == <<g.xs[e[1][1]], g.ys[e[1][2]]>>
        Ring(walk) ==
            LET IsVertex(k) ==
                    \/ walk[k][2]
                           # walk[IF k = 1 THEN Len(walk) ELSE k - 1][2]
                    \/ Point(walk[k]) \in nodes
                Vertices(kept) ==
                    ExteriorCoords([k \in DOMAIN kept |->
                                       Point(walk[kept[k]])])
            IN  Vertices(SelectSeq([k \in 1..Len(walk) |-> k], IsVertex))
        Walk(E, jump) ==
            LET Along(orbit) ==
                    [k \in 1..Cardinality(orbit) |->
                        EdgeAfter(jump, first, k - 1, 1)]
            IN  Along({EdgeAfter(jump, first, k, 1) :
                          k \in 0..(Cardinality(E) - 1)})
        Around(E) == Ring(Walk(E, Jumps(C, E, Log2(Cardinality(E)))))
    IN  Around(BoundaryEdges(C, g))

\* unary_union(polygons): the pieces of the union, each a polygon with its
\* exterior ring and its area (doubled; holes are not part of the area).
\* No piece is an empty geometry; one piece is a Polygon, more are the
\* geoms of a MultiPolygon.
unary_union(polys) ==
    LET nodes == UNION {Range(polys[k]) : k \in DOMAIN polys}
        Pieces(g) ==
            LET Of(comps) ==
                    [k \in DOMAIN comps |->
                        [exterior |-> ExteriorOf(comps[k], g, nodes),
                         area2 |-> 2 * RegionArea(comps[k], g)]]
            IN  Of(Components(UNION {CellsOf(polys[k], g) :
                                        k \in DOMAIN polys}))
    IN  Pieces(GridOf(polys))

----------------------------------------------------------------------------
(* polygon.simplify(tolerance, preserve_topology=True): the topology        *)
(* preserving Douglas-Peucker simplification of the exterior ring.  A       *)
(* tolerance is an integer number of TolUnit-ths of a pixel, a unit in      *)
(* which every tolerance the binary searches can reach is whole.            *)
(* Distances are compared exactly, on squares, with numbers kept as         *)
(* sequences of digits where a product would not fit a machine integer.     *)

TolUnit == 81920

Base == 1000

\* The digits of n, lowest first.
RECURSIVE BigOf(_)
BigOf(n) == IF n < Base THEN <<n>> ELSE <<n % Base>> \o BigOf(n \div Base)

RECURSIVE BigTimes(_, _, _)
BigTimes(big, k, carry) ==
    IF big = <<>> THEN (IF carry = 0 THEN <<>> ELSE BigOf(carry))
    ELSE LET v == Head(big) * k + carry
         IN  <<v % Base>> \o BigTimes(Tail(big), k, v \div Base)

\* Without leading zeros (the empty sequence is zero).
RECURSIVE BigNorm(_)
BigNorm(big) ==
    IF big = <<>> \/ big[Len(big)] # 0 THEN big
    ELSE BigNorm(SubSeq(big, 1, Len(big) - 1))

RECURSIVE BigLeqFrom(_, _, _)
BigLeqFrom(a, b, k) ==
    IF k = 0 THEN TRUE
    ELSE IF a[k] # b[k] THEN a[k] < b[k]
    ELSE BigLeqFrom(a, b, k - 1)

BigLeq(x, y) ==
    LET a == BigNorm(x)
        b == BigNorm(y)
    IN  IF Len(a) # Len(b) THEN Len(a) < Len(b)
        ELSE BigLeqFrom(a, b, Len(a))

RECURSIVE BigAdd(_, _, _)
BigAdd(a, b, carry) ==
    IF a = <<>> /\ b = <<>> THEN (IF carry = 0 THEN <<>> ELSE <<carry>>)
    ELSE LET x == IF a = <<>> THEN 0 ELSE Head(a)
             y == IF b = <<>> THEN 0 ELSE Head(b)
             v == x + y + carry
         IN  <<v % Base>> \o BigAdd(IF a = <<>> THEN a ELSE Tail(a),
                                    IF b = <<>> THEN b ELSE Tail(b),
                                    v \div Base)

RECURSIVE BigMul(_, _)
BigMul(a, b) ==
    IF b = <<>> THEN <<>>
    ELSE BigAdd(BigTimes(a, Head(b), 0), <<0>> \o BigMul(a, Tail(b)), 0)

Dist2(p, q) ==
    (p[1] - q[1]) * (p[1] - q[1]) + (p[2] - q[2]) * (p[2] - q[2])

\* The squared distance of p from the segment ab, as a fraction
\* <<numerator, denominator>>; within one segment the denominators agree.
SegDist2(p, a, b) ==
    IF a = b THEN <<Dist2(p, a), 1>>
    ELSE LET len2 == Dist2(a, b)
             r    == (p[1] - a[1]) * (b[1] - a[1])
                     + (p[2] - a[2]) * (b[2] - a[2])
         IN  IF r <= 0 THEN <<Dist2(p, a) * len2, len2>>
             ELSE IF r >= len2 THEN <<Dist2(p, b) * len2, len2>>
             ELSE <<Cross(a, b, p) * Cross(a, b, p), len2>>

\* distance <= tolerance, for a squared distance d2 = <<num, den>>.
WithinTolerance(d2, tol) ==
    BigLeq(BigTimes(BigTimes(BigOf(d2[1]), TolUnit, 0), TolUnit, 0),
           BigTimes(BigTimes(BigOf(d2[2]), tol, 0), tol, 0))

\* The first point strictly between i and j that is furthest from the
\* segment from pts[i] to pts[j].
findFurthestPoint(pts, i, j) ==
    LET FirstMax(dist) ==
            CHOOSE k \in DOMAIN dist :
                \A m \in DOMAIN dist :
                    dist[m] < dist[k] \/ (dist[m] = dist[k] /\ k <= m)
    IN  FirstMax([k \in (i + 1)..(j - 1) |->
                     SegDist2(pts[k], pts[i], pts[j])[1]])

\* The segments ab and cd share a point that is not an end of both.
hasInteriorIntersection(a, b, c, d) ==
    LET share == {a, b} \cap {c, d}
    IN  /\ SegmentsMeet(a, b, c, d)
        /\ IF Cross(a, b, c) # 0 \/ Cross(a, b, d) # 0 THEN share = {}
           ELSE CASE Cardinality(share) = 2 -> FALSE
                  [] Cardinality(share) = 1 ->
                        LET s == CHOOSE x \in share : TRUE
                            p == IF a = s THEN b ELSE a
                            q == IF c = s THEN d ELSE c
                        IN  Dot(p, s, q) > 0
                  [] OTHER -> TRUE

\* The ring must keep four coordinates.
MinimumSize == 4

\* The result so far is the sequence res of kept positions of pts.
addToResult(res, i, j) == IF res = <<>> THEN <<i, j>> ELSE Append(res, j)

\* The flattened section i..j would touch a segment of the result so far
\* or a segment of the ring after the section.
hasBadIntersection(pts, i, j, res) ==
    \/ \E k \in 1..(Len(res) - 1) :
           hasInteriorIntersection(pts[i], pts[j],
                                   pts[res[k]], pts[res[k + 1]])
    \/ \E k \in j..(Len(pts) - 1) :
           hasInteriorIntersection(pts[i], pts[j], pts[k], pts[k + 1])

RECURSIVE simplifySection(_, _, _, _, _, _)
simplifySection(pts, i, j, depth, res, tol) ==
    IF i + 1 = j THEN addToResult(res, i, j)
    ELSE LET isValidToSimplify(f) ==
                 /\ ~(Len(res) < MinimumSize /\ depth + 2 < MinimumSize)
                 /\ WithinTolerance(SegDist2(pts[f], pts[i], pts[j]), tol)
                 /\ ~hasBadIntersection(pts, i, j, res)
             Section(f) ==
                 IF isValidToSimplify(f) THEN addToResult(res, i, j)
                 ELSE simplifySection(pts, f, j, depth + 1,
                          simplifySection(pts, i, f, depth + 1, res, tol),
                          tol)
         IN  Section(findFurthestPoint(pts, i, j))

\* polygon.simplify(tol, preserve_topology=True).exterior.coords
simplify(ext, tol) ==
    LET Coords(res) == [k \in DOMAIN res |-> ext[res[k]]]
    IN  Coords(simplifySection(ext, 1, Len(ext), 0, <<>>, tol))

----------------------------------------------------------------------------
(* data_structures.py: Prediction *)

Prediction(c, b, cf, poly) ==
    [class_name |-> c, box |-> b, conf |-> cf, polygon |-> poly]

----------------------------------------------------------------------------
(* The duplicate filter: ImprovedPolygonMerger.filter_by_improved_iou and   *)
(* PolygonMerger.filter_by_iou (the same loop with another default          *)
(* threshold).  Thresholds are in tenths.                                   *)

\* ImprovedPolygonMerger.__init__: iou_threshold = 0.7
improved_iou_threshold == 7

\* PolygonMerger.__init__: iou_threshold = 0.5
iou_threshold == 5

\* sorted(predictions, key=lambda x: x.conf, reverse=True): a stable sort,
\* so equal confidences keep their input order.
RECURSIVE SortedByConf(_)
SortedByConf(s) ==
    IF s = <<>> THEN <<>>
    ELSE LET rest == SortedByConf(SubSeq(s, 1, Len(s) - 1))
             x    == s[Len(s)]
             k    == Cardinality({i \in DOMAIN rest : rest[i].conf >= x.conf})
         IN  SubSeq(rest, 1, k) \o <<x>> \o SubSeq(rest, k + 1, Len(rest))

\* The inner loop over the kept predictions, with >= for > (a mutant).
IsDuplicate_Ge(pred, filtered, tenths) ==
    \E k \in DOMAIN filtered :
        /\ pred.class_name = filtered[k].class_name
        /\ IouAbove_Ge(pred.box, filtered[k].box, tenths)

\* The inner loop over the kept predictions: is_duplicate.
IsDuplicate(pred, filtered, tenths) ==
    \E k \in DOMAIN filtered :
        /\ pred.class_name = filtered[k].class_name
        /\ IouAbove(pred.box, filtered[k].box, tenths)

\* The outer loop: "for pred in sorted_predictions".
RECURSIVE IouFilterLoop(_, _, _)
IouFilterLoop(sorted, filtered, tenths) ==
    IF sorted = <<>> THEN filtered
    ELSE LET pred == Head(sorted)
         IN  IouFilterLoop(Tail(sorted),
                           IF IsDuplicate(pred, filtered, tenths)
                           THEN filtered ELSE Append(filtered, pred),
                           tenths)

FilterByIouWith(predictions, tenths) ==
    IF Len(predictions) <= 1 THEN predictions
    ELSE IouFilterLoop(SortedByConf(predictions), <<>>, tenths)

filter_by_improved_iou(predictions) ==
    FilterByIouWith(predictions, improved_iou_threshold)

filter_by_iou(predictions) == FilterByIouWith(predictions, iou_threshold)

----------------------------------------------------------------------------
(* improved_polygon_merger.py: ImprovedPolygonMerger *)

\* __init__ defaults
min_area == 50

min_polygon_points == 8

lp_class_name == "lp"

background_class == "background"

\* str.lower() on the class names that occur.
Lower(c) == IF c = "Background" THEN "background" ELSE c

\* Polygon(coords) of a prediction's polygon, as its closed exterior ring.
PolygonOf(pred) == ExteriorCoords(pred.polygon)

\* _filter_background_class comparing the names as written (a mutant).
_filter_background_class_Exact(predictions) ==
    LET Keep(pred) == pred.class_name # background_class
    IN  SelectSeq(predictions, Keep)

_filter_background_class(predictions) ==
    LET Keep(pred) == Lower(pred.class_name) # Lower(background_class)
    IN  SelectSeq(predictions, Keep)

\* _filter_short_segments with <= for < (a mutant).
_filter_short_segments_AtMost(predictions) ==
    LET Keep(pred) ==
            ~(/\ pred.class_name = lp_class_name
              /\ pred.polygon # <<>>
              /\ Len(pred.polygon) <= min_polygon_points)
    IN  SelectSeq(predictions, Keep)

_filter_short_segments(predictions) ==
    LET Keep(pred) ==
            ~(/\ pred.class_name = lp_class_name
              /\ pred.polygon # <<>>
              /\ Len(pred.polygon) < min_polygon_points)
    IN  SelectSeq(predictions, Keep)

\* _group_by_class putting every detection into each group (a mutant).
_group_by_class_All(predictions, class_name) == predictions

\* The keys of the dict built by _group_by_class, in insertion order.
RECURSIVE ClassOrder(_, _)
ClassOrder(predictions, seen) ==
    IF predictions = <<>> THEN seen
    ELSE ClassOrder(Tail(predictions),
                    IF Head(predictions).class_name \in Range(seen) THEN seen
                    ELSE Append(seen, Head(predictions).class_name))

\* grouped[class_name]
_group_by_class(predictions, class_name) ==
    LET Mine(pred) == pred.class_name = class_name
    IN  SelectSeq(predictions, Mine)

\* The sort by area without reverse=True: smallest first (a mutant).
RECURSIVE SortedByArea_Ascending(_)
SortedByArea_Ascending(s) ==
    IF s = <<>> THEN <<>>
    ELSE LET rest == SortedByArea_Ascending(SubSeq(s, 1, Len(s) - 1))
             x    == s[Len(s)]
             k    == Cardinality({i \in DOMAIN rest :
                         Area2(PolygonOf(rest[i])) <= Area2(PolygonOf(x))})
         IN  SubSeq(rest, 1, k) \o <<x>> \o SubSeq(rest, k + 1, Len(rest))

\* polygons_with_predictions.sort(key=area, reverse=True): stable.
RECURSIVE SortedByArea(_)
SortedByArea(s) ==
    IF s = <<>> THEN <<>>
    ELSE LET rest == SortedByArea(SubSeq(s, 1, Len(s) - 1))
             x    == s[Len(s)]
             k    == Cardinality({i \in DOMAIN rest :
                         Area2(PolygonOf(rest[i])) >= Area2(PolygonOf(x))})
         IN  SubSeq(rest, 1, k) \o <<x>> \o SubSeq(rest, k + 1, Len(rest))

\* within_check or contains_check or intersection_ratio > 0.8
IsNestedIn(pred1, pred2) ==
    LET poly1 == PolygonOf(pred1)
        poly2 == PolygonOf(pred2)
    IN  \/ within(poly1, poly2)
        \/ /\ Area2(poly1) > 0
           /\ 2 * 5 * intersection_poly_area(poly1, poly2) > 4 * Area2(poly1)

\* The loop over polygons_with_predictions.
RECURSIVE NestedFilterLoop(_, _)
NestedFilterLoop(sorted, filtered) ==
    IF sorted = <<>> THEN filtered
    ELSE LET pred1 == Head(sorted)
             is_nested == \E j \in DOMAIN filtered :
                              /\ filtered[j].polygon # <<>>
                              /\ IsNestedIn(pred1, filtered[j])
         IN  NestedFilterLoop(Tail(sorted),
                              IF is_nested THEN filtered
                              ELSE Append(filtered, pred1))

\* "if pred.polygon and len(pred.polygon) >= 3" and poly.is_valid
HasValidPolygon(pred) ==
    /\ pred.polygon # <<>>
    /\ Len(pred.polygon) >= 3
    /\ is_valid(PolygonOf(pred))

\* _filter_nested_objects without the return of the whole list when no
\* polygon is valid (a mutant).
_filter_nested_objects_NoneValid(predictions) ==
    IF Len(predictions) <= 1 THEN predictions
    ELSE LET Filtered(polygons_with_predictions) ==
                 NestedFilterLoop(
                     SortedByArea(polygons_with_predictions), <<>>)
         IN  Filtered(SelectSeq(predictions, HasValidPolygon))

_filter_nested_objects(predictions) ==
    IF Len(predictions) <= 1 THEN predictions
    ELSE LET Filtered(polygons_with_predictions) ==
                 IF polygons_with_predictions = <<>> THEN predictions
                 ELSE NestedFilterLoop(
                          SortedByArea(polygons_with_predictions), <<>>)
         IN  Filtered(SelectSeq(predictions, HasValidPolygon))

\* What differs between the two mergers: ImprovedPolygonMerger and
\* PolygonMerger (polygon_merger.py).  Tolerances are in TolUnit-ths of a
\* pixel; near_tenths is the share of max_points that ends the search.
ImprovedMerger ==
    [min_area |-> min_area, lp_max_points |-> 60, max_points |-> 40,
     min_tolerance |-> 16384, max_tolerance |-> 409600, iterations |-> 8,
     near_tenths |-> 9]

PolygonMerger ==
    [min_area |-> 10, lp_max_points |-> 60, max_points |-> 60,
     min_tolerance |-> 8192, max_tolerance |-> 819200, iterations |-> 10,
     near_tenths |-> 8]

\* _smart_simplify_polygon: the binary search.  n iterations are left;
\* lo and hi are min_tolerance and max_tolerance.
RECURSIVE SmartSearch(_, _, _, _, _, _, _)
SmartSearch(ext, max_points, m, n, lo, hi, best_poly) ==
    IF n = 0 THEN best_poly
    ELSE LET tolerance == (lo + hi) \div 2
             Try(simplified) ==
                 IF is_valid(simplified) /\ Len(simplified) > 3
                 THEN IF Len(simplified) <= max_points
                      THEN IF 10 * Len(simplified)
                                  >= m.near_tenths * max_points
                           THEN simplified
                           ELSE SmartSearch(ext, max_points, m, n - 1,
                                            tolerance, hi, simplified)
                      ELSE SmartSearch(ext, max_points, m, n - 1,
                                       lo, tolerance, best_poly)
                 ELSE SmartSearch(ext, max_points, m, n - 1,
                                  lo, tolerance, best_poly)
         IN  Try(simplify(ext, tolerance))

\* coords[::step]
Stride(coords, step) ==
    [k \in 1..((Len(coords) + step - 1) \div step) |->
        coords[(k - 1) * step + 1]]

_smart_simplify_polygon(ext, max_points, m) ==
    IF Len(ext) <= max_points THEN ext
    ELSE LET Sampled(best_poly) ==
                 LET Built(sampled_coords) ==
                         IF Len(sampled_coords) >= 3
                            /\ is_valid(ExteriorCoords(sampled_coords))
                         THEN ExteriorCoords(sampled_coords)
                         ELSE best_poly
                 IN  IF Len(best_poly) > max_points
                     THEN Built(Stride(best_poly,
                                    Max(1, Len(best_poly) \div max_points)))
                     ELSE best_poly
         IN  Sampled(SmartSearch(ext, max_points, m, m.iterations,
                                 m.min_tolerance, m.max_tolerance, ext))

\* max_points of _polygon_to_prediction
MaxPointsOf(class_name, m) ==
    IF class_name = lp_class_name THEN m.lp_max_points ELSE m.max_points

\* _polygon_to_prediction with confidence 1.0 for 0.8 (a mutant).
_polygon_to_prediction_Sure(ext, class_name, m) ==
    LET Of(polygon) ==
            Prediction(class_name, bounds(polygon), 100, OpenCoords(polygon))
    IN  Of(IF Len(ext) > MaxPointsOf(class_name, m)
           THEN _smart_simplify_polygon(ext, MaxPointsOf(class_name, m), m)
           ELSE ext)

\* confidence = 0.8
merged_confidence == 80

_polygon_to_prediction(ext, class_name, m) ==
    LET Of(polygon) ==
            Prediction(class_name, bounds(polygon), merged_confidence,
                       OpenCoords(polygon))
    IN  Of(IF Len(ext) > MaxPointsOf(class_name, m)
           THEN _smart_simplify_polygon(ext, MaxPointsOf(class_name, m), m)
           ELSE ext)

\* poly.area >= self.min_area, with > for >= (a mutant).
BigEnough_Above(piece, m) == piece.area2 > 2 * m.min_area

\* poly.area >= self.min_area
BigEnough(piece, m) == piece.area2 >= 2 * m.min_area

\* polygons built from every detection that has a polygon, with no test
\* of its length or validity (a mutant).
UnionOperands_Unchecked(predictions) ==
    LET Polygons(withPolygon) ==
            [k \in DOMAIN withPolygon |-> PolygonOf(withPolygon[k])]
        HasPolygon(pred) == pred.polygon # <<>>
    IN  Polygons(SelectSeq(predictions, HasPolygon))

\* polygons: the list given to unary_union, one polygon for each
\* detection that has a polygon of at least 3 points that is valid.
UnionOperands(predictions) ==
    LET Polygons(withPolygon) ==
            [k \in DOMAIN withPolygon |-> PolygonOf(withPolygon[k])]
    IN  Polygons(SelectSeq(predictions, HasValidPolygon))

MergeClassWith(predictions, m) ==
    IF Len(predictions) <= 1 THEN predictions
    ELSE LET class_name == predictions[1].class_name
             Kept(piece) == BigEnough(piece, m)
             Result(merged_predictions) ==
                 IF merged_predictions # <<>> THEN merged_predictions
                 ELSE predictions
             Converted(kept) ==
                 Result([k \in DOMAIN kept |->
                            _polygon_to_prediction(kept[k].exterior,
                                                   class_name, m)])
             Merged(merged_polygons) ==
                 IF merged_polygons = <<>> THEN predictions
                 ELSE Converted(SelectSeq(merged_polygons, Kept))
             United(polygons) ==
                 IF polygons = <<>> THEN predictions
                 ELSE Merged(unary_union(polygons))
         IN  United(UnionOperands(predictions))

\* ImprovedPolygonMerger._merge_class_predictions
_merge_class_predictions(predictions) ==
    MergeClassWith(predictions, ImprovedMerger)

\* PolygonMerger._merge_class_predictions
PolygonMerger_merge_class_predictions(predictions) ==
    MergeClassWith(predictions, PolygonMerger)

\* The loop over grouped_predictions.items().
RECURSIVE MergeClasses(_, _)
MergeClasses(classes, filtered_predictions) ==
    IF classes = <<>> THEN <<>>
    ELSE LET class_name == Head(classes)
             Filtered(grouped) ==
                 IF class_name = lp_class_name
                 THEN _filter_nested_objects(grouped)
                 ELSE grouped
         IN  _merge_class_predictions(
                 Filtered(_group_by_class(filtered_predictions, class_name)))
             \o MergeClasses(Tail(classes), filtered_predictions)

\* merge_predictions extending the result with the filtered detections as
\* well as with the merged ones (a mutant).
merge_predictions_Extended(predictions) ==
    IF predictions = <<>> THEN <<>>
    ELSE LET filtered_predictions ==
                 _filter_short_segments(_filter_background_class(predictions))
         IN  MergeClasses(ClassOrder(filtered_predictions, <<>>),
                          filtered_predictions)
             \o filtered_predictions

merge_predictions(predictions) ==
    IF predictions = <<>> THEN <<>>
    ELSE LET filtered_predictions ==
                 _filter_short_segments(_filter_background_class(predictions))
         IN  MergeClasses(ClassOrder(filtered_predictions, <<>>),
                          filtered_predictions)

----------------------------------------------------------------------------
(* adaptive_polygon_simplifier.py: AdaptivePolygonSimplifier.  A polygon    *)
(* is its closed exterior ring; "points" counts the coordinates of the      *)
(* ring, closing point included, as len(polygon.exterior.coords) does.      *)
(* The perimeter figures of the report are left out.                        *)

simple_threshold == 20

complex_threshold == 200

\* Tolerances in TolUnit-ths of a pixel, the area threshold in hundredths.
simple_params ==
    [min_tolerance |-> 4096, max_tolerance |-> 81920, max_points |-> 15,
     area_preservation_threshold |-> 95, complexity |-> "simple"]

complex_params ==
    [min_tolerance |-> 8192, max_tolerance |-> 245760, max_points |-> 80,
     area_preservation_threshold |-> 98, complexity |-> "complex"]

default_params ==
    [min_tolerance |-> 8192, max_tolerance |-> 163840, max_points |-> 60,
     area_preservation_threshold |-> 97, complexity |-> "medium"]

\* The profile chosen from the number of points.
ParamsFor(original_points) ==
    IF original_points < simple_threshold THEN simple_params
    ELSE IF original_points > complex_threshold THEN complex_params
    ELSE default_params

\* range(12)
SearchIterations == 12

\* The angle at q between qp and qr is below 180 - 15 degrees: its cosine
\* is above -(sqrt 6 + sqrt 2) / 4.
IsKeyAngle(p, q, r) ==
    LET dot == Dot(p, q, r)
        \* n = |qp|^2 |qr|^2 and d2 = dot^2
        Below(n, d2) ==
            \/ BigLeq(BigTimes(d2, 4, 0), BigTimes(n, 2, 0))
            \/ \* (4 dot^2 - 2 n)^2 < 3 n^2, as 16 dot^4 + n^2 < 16 dot^2 n
               ~BigLeq(BigTimes(BigMul(d2, n), 16, 0),
                       BigAdd(BigTimes(BigMul(d2, d2), 16, 0),
                              BigMul(n, n), 0))
    IN  /\ p # q
        /\ q # r
        /\ \/ dot >= 0
           \/ Below(BigMul(BigOf(Dist2(p, q)), BigOf(Dist2(q, r))),
                    BigMul(BigOf(Abs(dot)), BigOf(Abs(dot))))

\* _find_key_points, as positions of coords.
_find_key_points(coords) ==
    IF Len(coords) < 3 THEN [k \in 1..Len(coords) |-> k]
    ELSE LET Key(i) == i = 1 \/ i = Len(coords)
                        \/ IsKeyAngle(coords[i - 1], coords[i], coords[i + 1])
         IN  SelectSeq([k \in 1..Len(coords) |-> k], Key)

\* The pairs <<target_points, len(coords), i>> where the floating point
\* product i * (len(coords) / target_points) falls just below the whole
\* number that the exact product is, so that int() yields one less.
RoundsBelow ==
    { <<60, 84, 45>>, <<60, 130, 54>>, <<60, 138, 50>>, <<60, 168, 45>>,
      <<80, 224, 45>>, <<80, 328, 30>>, <<80, 328, 50>>, <<80, 328, 60>>,
      <<80, 368, 25>>, <<80, 368, 45>>, <<80, 368, 50>>, <<80, 368, 55>> }

\* int(i * step) % len(coords), for step = len(coords) / target_points,
\* as a position of coords (from 1).
SampleIndex(i, len, target_points) ==
    (((i * len) \div target_points
        - (IF <<target_points, len, i>> \in RoundsBelow THEN 1 ELSE 0))
     % len) + 1

\* The sampled ring: one more point is appended when the last sampled
\* point is not the first.
SampledCoords(coords, target_points) ==
    LET sampled == [k \in 1..target_points |->
                       coords[SampleIndex(k - 1, Len(coords), target_points)]]
    IN  IF sampled[1] # sampled[Len(sampled)]
        THEN Append(sampled, sampled[1]) ELSE sampled

NoMetrics == [method |-> "adaptive_simplify", tolerance_used |-> 0,
              iterations |-> 0]

FallbackMetrics(method) ==
    [method |-> method, tolerance_used |-> 0, iterations |-> 0]

\* Polygon(coords) can be built (a ring needs four coordinates) and is valid.
BuildsValid(coords) ==
    /\ Len(coords) >= 3
    /\ Len(ExteriorCoords(coords)) >= 4
    /\ is_valid(ExteriorCoords(coords))

_fallback_simplify(polygon, target_points) ==
    LET coords == polygon
        Sampling(sampled_coords) ==
            IF BuildsValid(sampled_coords)
            THEN [polygon |-> ExteriorCoords(sampled_coords),
                  metrics |-> FallbackMetrics("adaptive_sampling")]
            ELSE [polygon |-> polygon,
                  metrics |-> FallbackMetrics("fallback_failed")]
        KeyPoints(key_points) ==
            LET key_coords ==
                    [k \in DOMAIN key_points |-> coords[key_points[k]]]
            IN  IF Len(key_points) <= target_points
                   /\ BuildsValid(key_coords)
                THEN [polygon |-> ExteriorCoords(key_coords),
                      metrics |-> FallbackMetrics("key_points_preservation")]
                ELSE Sampling(SampledCoords(coords, target_points))
    IN  IF Len(coords) <= target_points
        THEN [polygon |-> polygon,
              metrics |-> FallbackMetrics("no_simplification_needed")]
        ELSE KeyPoints(_find_key_points(coords))

\* score > best_score.  A score is area_preserved * (target_points /
\* points); within one call the original area and the target are fixed, so
\* a score is kept as <<doubled area of the simplified polygon, points>>
\* and 0 as <<0, 1>>.
ScoreAbove(score, best_score) ==
    score[1] * best_score[2] > best_score[1] * score[2]

\* The state of _adaptive_simplify before its loop.
SearchStart(polygon, params) ==
    [iteration |-> 0,
     min_tolerance |-> params.min_tolerance,
     max_tolerance |-> params.max_tolerance,
     tolerance |-> 0,
     best_polygon |-> polygon,
     best_score |-> <<0, 1>>,
     best_metrics |-> NoMetrics]

\* area_preserved >= area_threshold, with the test dropped (a mutant).
AreaPreserved_Any(simplified, polygon, params) == TRUE

\* area_preserved >= area_threshold
AreaPreserved(simplified, polygon, params) ==
    /\ Area2(polygon) > 0
    /\ 100 * Area2(simplified)
           >= params.area_preservation_threshold * Area2(polygon)

\* The count of iterations that falls back by one before the last (a
\* mutant).
NextIteration_Back(iteration) ==
    IF iteration = 11 THEN 10 ELSE iteration + 1

\* "for iteration in range(12)": the count after one more iteration.
NextIteration(iteration) == iteration + 1

\* One iteration of the loop of _adaptive_simplify.
SearchStep(s, polygon, target_points, params) ==
    LET tolerance == (s.min_tolerance + s.max_tolerance) \div 2
        next == [s EXCEPT !.iteration = NextIteration(s.iteration),
                          !.tolerance = tolerance]
        Better(simplified, score) ==
            IF ScoreAbove(score, s.best_score)
            THEN [next EXCEPT
                     !.best_score = score,
                     !.best_polygon = simplified,
                     !.best_metrics =
                         [method |-> "douglas_peucker",
                          tolerance_used |-> tolerance,
                          iterations |-> s.iteration + 1],
                     !.min_tolerance = tolerance]
            ELSE [next EXCEPT !.min_tolerance = tolerance]
        Try(simplified) ==
            IF ~is_valid(simplified) \/ Len(simplified) < 3
            THEN [next EXCEPT !.max_tolerance = tolerance]
            ELSE IF AreaPreserved(simplified, polygon, params)
            THEN IF Len(simplified) <= target_points
                 THEN Better(simplified,
                             <<Area2(simplified), Max(Len(simplified), 1)>>)
                 ELSE [next EXCEPT !.max_tolerance = tolerance]
            ELSE [next EXCEPT !.max_tolerance = tolerance]
    IN  Try(simplify(polygon, tolerance))

\* The test after the loop of _adaptive_simplify taken as always true (a
\* mutant).
NeedsFallback_Always(s, target_points) == TRUE

\* "if best_score == 0 or len(best_polygon.exterior.coords) >
\* target_points * 1.5"
NeedsFallback(s, target_points) ==
    \/ s.best_score[1] = 0
    \/ 2 * Len(s.best_polygon) > 3 * target_points

\* What _adaptive_simplify returns after its loop.
SearchResult(s, polygon, target_points) ==
    IF NeedsFallback(s, target_points)
    THEN _fallback_simplify(polygon, target_points)
    ELSE [polygon |-> s.best_polygon, metrics |-> s.best_metrics]

RECURSIVE SearchLoop(_, _, _, _)
SearchLoop(s, polygon, target_points, params) ==
    IF s.iteration = SearchIterations THEN s
    ELSE SearchLoop(SearchStep(s, polygon, target_points, params),
                    polygon, target_points, params)

_adaptive_simplify(polygon, target_points, params) ==
    SearchResult(SearchLoop(SearchStart(polygon, params),
                            polygon, target_points, params),
                 polygon, target_points)

\* The report of simplify_polygon; area_preserved is the pair of doubled
\* areas <<simplified, original>>.
FinalMetrics(polygon, best, params) ==
    [original_points |-> Len(polygon),
     simplified_points |-> Len(best.polygon),
     area_preserved |-> <<Area2(best.polygon), Area2(polygon)>>,
     complexity |-> params.complexity,
     method |-> best.metrics.method,
     tolerance_used |-> best.metrics.tolerance_used,
     iterations |-> best.metrics.iterations]

\* The early return of simplify_polygon for a polygon within its target.
NoSimplification(polygon, params) ==
    [polygon |-> polygon,
     metrics |-> [original_points |-> Len(polygon),
                  simplified_points |-> Len(polygon),
                  area_preserved |-> <<1, 1>>,
                  complexity |-> params.complexity,
                  method |-> "no_simplification_needed",
                  tolerance_used |-> 0,
                  iterations |-> 0]]

\* What simplify_polygon returns after _adaptive_simplify.
Report(polygon, best, params) ==
    [polygon |-> best.polygon,
     metrics |-> FinalMetrics(polygon, best, params)]

\* simplify_polygon(polygon) with target_points = None.
simplify_polygon(polygon) ==
    LET params == ParamsFor(Len(polygon))
        target_points == params.max_points
    IN  IF ~is_valid(polygon)
        THEN [polygon |-> polygon,
              metrics |-> [error |-> "Invalid or empty polygon"]]
        ELSE IF Len(polygon) <= target_points
        THEN NoSimplification(polygon, params)
        ELSE Report(polygon,
                    _adaptive_simplify(polygon, target_points, params),
                    params)

----------------------------------------------------------------------------
(* improved_wsi_yolo_pipeline.py: the simplification stage *)

\* The detection after the stage has set pred.polygon and
\* pred.simplification_metrics on it.
WithMetrics(pred, polygon, metrics) ==
    [class_name |-> pred.class_name, box |-> pred.box, conf |-> pred.conf,
     polygon |-> polygon, simplification_metrics |-> metrics]

\* The body of the loop of _adaptive_simplify_predictions for one pred.
AdaptiveSimplifyOne(pred) ==
    IF pred.polygon # <<>> /\ Len(pred.polygon) > 3
          /\ is_valid(PolygonOf(pred))
    THEN LET Stored(r) ==
                 IF is_valid(r.polygon)
                 THEN WithMetrics(pred, r.polygon,
                          [original_points |-> r.metrics.original_points,
                           simplified_points |-> r.metrics.simplified_points,
                           area_preserved |-> r.metrics.area_preserved,
                           method |-> r.metrics.method])
                 ELSE WithMetrics(pred, pred.polygon,
                          [original_points |-> Len(pred.polygon),
                           simplified_points |-> Len(pred.polygon),
                           area_preserved |-> <<1, 1>>,
                           method |-> "no_simplification_needed"])
         IN  Stored(simplify_polygon(PolygonOf(pred)))
    ELSE pred

_adaptive_simplify_predictions(predictions) ==
    [k \in DOMAIN predictions |-> AdaptiveSimplifyOne(predictions[k])]

----------------------------------------------------------------------------
(* Operations as actions.  An operation takes the current list (output),    *)
(* and leaves its argument in input and its return value in output.         *)

Do(name, res) ==
    /\ input' = output
    /\ output' = res
    /\ ops' = Append(ops, name)
    /\ UNCHANGED <<raw, sim>>

SimIdle == [pc |-> "idle"]

----------------------------------------------------------------------------
(* The duplicate filter on its own: lists of box-only predictions.          *)

\* The longest list given to the duplicate filter.
MaxIouPreds == 3

\* Boxes with IoU exactly 0.7, 0.8 and 0.5 against BoxA, and a disjoint one.
BoxA  == BoxOf(0, 0, 10, 10)
BoxB7 == BoxOf(0, 0, 7, 10)
BoxB8 == BoxOf(0, 0, 8, 10)
BoxB5 == BoxOf(0, 0, 5, 10)
BoxC  == BoxOf(20, 20, 30, 30)

IouCatalogue ==
    { Prediction("lp", BoxA, 90, <<>>),
      Prediction("lp", BoxA, 80, <<>>),
      Prediction("lp", BoxB7, 80, <<>>),
      Prediction("lp", BoxB8, 80, <<>>),
      Prediction("lp", BoxB5, 80, <<>>),
      Prediction("lp", BoxB5, 90, <<>>),
      Prediction("lp", BoxC, 70, <<>>),
      Prediction("mild", BoxA, 90, <<>>),
      Prediction("mild", BoxB8, 80, <<>>),
      Prediction("mild", BoxB7, 95, <<>>) }

\* The list of test_improved_iou_filtering: three lp boxes of 100 x 100 at
\* (100, 100), (150, 150) and (300, 300).
IouTestPredictions ==
    << Prediction("lp", BoxOf(100, 100, 200, 200), 90, <<>>),
       Prediction("lp", BoxOf(150, 150, 250, 250), 80, <<>>),
       Prediction("lp", BoxOf(300, 300, 400, 400), 70, <<>>) >>

InitIou ==
    /\ raw \in SeqsUpTo(IouCatalogue, MaxIouPreds) \cup {IouTestPredictions}
    /\ input = <<>>
    /\ output = raw
    /\ ops = <<>>
    /\ sim = SimIdle

FilterByImprovedIou ==
    /\ ops = <<>>
    /\ Do("filter_by_improved_iou", filter_by_improved_iou(output))

FilterByIou ==
    /\ ops = <<>>
    /\ Do("filter_by_iou", filter_by_iou(output))

NextIou == FilterByImprovedIou \/ FilterByIou

SpecIou == InitIou /\ [][NextIou]_vars

----------------------------------------------------------------------------
(* The merger and the simplification stage on lists of detections with      *)
(* polygons.  Every valid polygon handed to the merger is rectilinear.      *)

\* The corners of a rectangle, counter-clockwise.
Rect(x1, y1, x2, y2) == <<<<x1, y1>>, <<x2, y1>>, <<x2, y2>>, <<x1, y2>>>>

\* A rectangle with a vertex in the middle of each side as well.
Rect8(x1, y1, x2, y2) ==
    LET xm == (x1 + x2) \div 2
        ym == (y1 + y2) \div 2
    IN  <<<<x1, y1>>, <<xm, y1>>, <<x2, y1>>, <<x2, ym>>,
          <<x2, y2>>, <<xm, y2>>, <<x1, y2>>, <<x1, ym>>>>

\* A rectangle at least 38 wide with 40 vertices: 20 along its lower side
\* and 20 along its upper side.
Rect40(x1, y1, x2, y2) ==
    [k \in 1..40 |-> IF k <= 19 THEN <<x1 + (k - 1) * 2, y1>>
                     ELSE IF k = 20 THEN <<x2, y1>>
                     ELSE IF k <= 39 THEN <<x2 - (k - 21) * 2, y2>>
                     ELSE <<x1, y2>>]

\* A detection whose box is the bounding box of its polygon.
Det(class_name, conf, polygon) ==
    Prediction(class_name, bounds(ExteriorCoords(polygon)), conf, polygon)

\* The longest lists drawn from the two catalogues.
MaxNested == 3

MaxMergePreds == 2

\* lp detections for the nested filter: a large square, one with the same
\* polygon, a square inside it, one with 0.9 of its area inside it, one
\* with exactly 0.8, and a sliver inside the fourth but outside the first.
NestedCatalogue ==
    { Det("lp", 60, Rect8(0, 0, 40, 40)),
      Det("lp", 70, Rect8(0, 0, 40, 40)),
      Det("lp", 95, Rect8(8, 8, 28, 28)),
      Det("lp", 90, Rect8(22, 0, 42, 20)),
      Det("lp", 80, Rect8(24, 20, 44, 40)),
      Det("lp", 85, Rect8(40, 4, 42, 16)) }

\* An L with a vertex more on each side of its notch, and the rectangle
\* that fills the notch, with more vertices on the two sides they share.
NotchedL ==
    <<<<0, 0>>, <<30, 0>>, <<30, 10>>, <<25, 10>>, <<20, 10>>, <<20, 15>>,
      <<20, 20>>, <<0, 20>>>>

NotchFill ==
    <<<<20, 10>>, <<22, 10>>, <<25, 10>>, <<28, 10>>, <<30, 10>>,
      <<30, 20>>, <<20, 20>>, <<20, 15>>>>

\* A ring that crosses itself.
Bowtie == <<<<0, 0>>, <<10, 10>>, <<10, 0>>, <<0, 10>>>>

\* Detections of several classes for the merger: squares that overlap, a
\* square apart from them, two overlapping pieces of area 25, one of area
\* 50, a ring that crosses itself, a polygon of two points, detections
\* without polygons, and lp polygons with fewer than min_polygon_points
\* points.
MergeCatalogue ==
    { Det("mild", 90, Rect(0, 0, 10, 10)),
      Det("mild", 80, Rect(0, 0, 8, 10)),
      Det("mild", 70, Rect(60, 0, 70, 10)),
      Det("mild", 75, Rect(40, 0, 45, 5)),
      Det("mild", 65, Rect(43, 3, 48, 8)),
      Det("mild", 55, Rect(50, 20, 55, 30)),
      Det("mild", 60, Bowtie),
      Prediction("mild", BoxA, 50, <<<<0, 0>>, <<10, 0>>>>),
      Prediction("lp", BoxA, 90, <<>>),
      Prediction("lp", BoxB8, 80, <<>>),
      Det("lp", 90, Rect(0, 0, 10, 10)),
      Det("lp", 80, Rect(0, 0, 8, 10)),
      Det("lp", 85, NotchedL),
      Det("lp", 75, NotchFill),
      Det("background", 90, Rect(0, 0, 10, 10)),
      Det("Background", 90, Rect8(0, 0, 10, 10)) }

\* The scenario of three detections of one class: A (area 1000, 40
\* vertices, confidence 0.9), B (area 950, 40 vertices, 0.85) lying over
\* 0.9 of A, and C (area 500, 10 vertices, 0.6) apart from both.
ScenarioA == Rect40(0, 0, 40, 25)

ScenarioB == Rect40(4, 0, 42, 25)

ScenarioC ==
    <<<<60, 0>>, <<65, 0>>, <<70, 0>>, <<75, 0>>, <<80, 0>>,
      <<80, 25>>, <<75, 25>>, <<70, 25>>, <<65, 25>>, <<60, 25>>>>

Scenario(class_name) ==
    <<Det(class_name, 90, ScenarioA), Det(class_name, 85, ScenarioB),
      Det(class_name, 60, ScenarioC)>>

\* A frame of four rectangles around a hole, and one more inside the hole.
FrameAndIsland ==
    <<Det("mild", 90, Rect(0, 0, 40, 10)), Det("mild", 80, Rect(0, 30, 40, 40)),
      Det("mild", 70, Rect(0, 0, 10, 40)), Det("mild", 60, Rect(30, 0, 40, 40)),
      Det("mild", 50, Rect(15, 15, 25, 25))>>

\* Two classes interleaved, with the same two overlapping squares in each.
MixedClasses ==
    <<Det("mild", 90, Rect(0, 0, 10, 10)), Det("lp", 90, Rect8(0, 0, 10, 10)),
      Det("mild", 80, Rect(0, 0, 8, 10)), Det("lp", 80, Rect8(0, 0, 8, 10))>>

ScenarioLists ==
    {Scenario("lp"), Scenario("mild"), FrameAndIsland,
     SubSeq(FrameAndIsland, 1, 4), MixedClasses}

InitMerge ==
    /\ raw \in SeqsUpTo(NestedCatalogue, MaxNested)
               \cup SeqsUpTo(MergeCatalogue, MaxMergePreds)
               \cup ScenarioLists
    /\ input = <<>>
    /\ output = raw
    /\ ops = <<>>
    /\ sim = SimIdle

\* The list is the group of one class.
OneClass(predictions) ==
    \A i, j \in DOMAIN predictions :
        predictions[i].class_name = predictions[j].class_name

\* The sides of the ring are horizontal or vertical.
IsRectilinear(ext) ==
    \A i \in 1..(Len(ext) - 1) :
        ext[i][1] = ext[i + 1][1] \/ ext[i][2] = ext[i + 1][2]

\* The regions of the list's valid polygons are computed exactly.
Computable(predictions) ==
    \A i \in DOMAIN predictions :
        HasValidPolygon(predictions[i])
            => IsRectilinear(PolygonOf(predictions[i]))

FilterShortSegments ==
    /\ ops = <<>>
    /\ Do("_filter_short_segments", _filter_short_segments(output))

FilterNestedObjects ==
    /\ ops = <<>>
    /\ OneClass(output)
    /\ Do("_filter_nested_objects", _filter_nested_objects(output))

MergeClassPredictions ==
    /\ ops = <<>>
    /\ OneClass(output)
    /\ Do("_merge_class_predictions", _merge_class_predictions(output))

OriginalMergeClassPredictions ==
    /\ ops = <<>>
    /\ OneClass(output)
    /\ Do("PolygonMerger._merge_class_predictions",
          PolygonMerger_merge_class_predictions(output))

\* merge_predictions, on the raw list or once more on its own result.
MergePredictions ==
    /\ ops \in {<<>>, <<"merge_predictions">>}
    /\ Computable(output)
    /\ Do("merge_predictions", merge_predictions(output))

\* The stage that follows merge_predictions in process_wsi.
AdaptiveSimplifyPredictions ==
    /\ ops = <<"merge_predictions">>
    /\ Do("_adaptive_simplify_predictions",
          _adaptive_simplify_predictions(output))

NextMerge ==
    \/ FilterShortSegments
    \/ FilterNestedObjects
    \/ MergeClassPredictions
    \/ OriginalMergeClassPredictions
    \/ MergePredictions
    \/ AdaptiveSimplifyPredictions

SpecMerge == InitMerge /\ [][NextMerge]_vars

----------------------------------------------------------------------------
(* simplify_polygon step by step: one call per polygon of a catalogue, the  *)
(* loop of _adaptive_simplify one iteration at a time.                      *)

\* A comb: a bar of height h0 carrying k teeth of width tw and height th,
\* gw apart.
Comb(k, tw, gw, h0, th) ==
    ExteriorCoords(
        <<<<0, 0>>, <<k * tw + (k - 1) * gw, 0>>>> \o
        [m \in 1..(4 * k - 2) |->
            LET t == (m - 1) \div 4
                r == (m - 1) % 4
                xr == (k - t) * tw + (k - 1 - t) * gw
            IN  CASE r = 0 -> <<xr, h0 + th>>
                  [] r = 1 -> <<xr - tw, h0 + th>>
                  [] r = 2 -> <<xr - tw, h0>>
                  [] OTHER -> <<xr - tw - gw, h0>>])

\* A square of side n with a vertex at every unit of its boundary.
Dotted(n) ==
    ExteriorCoords(
        [k \in 1..(4 * n) |->
            IF k <= n THEN <<k - 1, 0>>
            ELSE IF k <= 2 * n THEN <<n, k - 1 - n>>
            ELSE IF k <= 3 * n THEN <<n - (k - 1 - 2 * n), n>>
            ELSE <<0, n - (k - 1 - 3 * n)>>])

\* A square with sides that bulge outwards.
Bulged ==
    ExteriorCoords(
        <<<<0, 0>>, <<10, -3>>, <<20, -4>>, <<30, -3>>, <<40, 0>>, <<43, 10>>,
          <<44, 20>>, <<43, 30>>, <<40, 40>>, <<30, 43>>, <<20, 44>>,
          <<10, 43>>, <<0, 40>>, <<-3, 30>>, <<-4, 20>>, <<-3, 10>>>>)

\* A U with a saw-toothed end.
Jagged ==
    ExteriorCoords(
        <<<<0, 60>>, <<5, 40>>, <<0, 20>>, <<0, 0>>, <<60, 0>>, <<60, 60>>,
          <<50, 60>>, <<50, 10>>, <<10, 10>>, <<10, 60>>, <<9, 57>>,
          <<8, 60>>, <<7, 57>>, <<6, 60>>, <<5, 57>>, <<4, 60>>, <<3, 57>>,
          <<2, 60>>>>)

\* A strip of length n, one unit to each side of its axis, with a vertex at
\* every unit.
Sliver(n) ==
    ExteriorCoords(
        <<<<0, 0>>>> \o [k \in 1..(n - 1) |-> <<k, -1>>] \o
        <<<<n, 0>>>> \o [k \in 1..(n - 1) |-> <<n - k, 1>>])

\* The square of side 5 without its last boundary vertex: 19 vertices, a
\* ring of 20 coordinates.
Dotted19 == ExteriorCoords(SubSeq(Dotted(5), 1, 19))

\* The polygons simplify_polygon is called with, of all three profiles.
SimplifyCatalogue ==
    { ExteriorCoords(Rect(0, 0, 10, 10)), ExteriorCoords(Bowtie),
      Dotted(4), Dotted(5), Dotted(16), Dotted(51), Dotted19,
      Comb(4, 5, 5, 10, 5), Comb(16, 2, 2, 20, 1), Comb(16, 4, 4, 10, 4),
      Bulged, Jagged, Sliver(8), Sliver(30) }

InitSimplify ==
    /\ raw = <<>>
    /\ input = <<>>
    /\ output = <<>>
    /\ ops = <<>>
    /\ sim \in {[pc |-> "called", polygon |-> polygon] :
                   polygon \in SimplifyCatalogue}

SimParams == ParamsFor(Len(sim.polygon))

\* simplify_polygon up to its call of _adaptive_simplify: it returns at
\* once when the polygon is invalid or within its target already.
SimplifyPolygonCall ==
    /\ sim.pc = "called"
    /\ sim' = IF \/ ~is_valid(sim.polygon)
                 \/ Len(sim.polygon) <= SimParams.max_points
              THEN [pc |-> "returned", polygon |-> sim.polygon,
                    result |-> simplify_polygon(sim.polygon)]
              ELSE [pc |-> "search", polygon |-> sim.polygon,
                    s |-> SearchStart(sim.polygon, SimParams)]
    /\ UNCHANGED <<raw, input, output, ops>>

\* One iteration of "for iteration in range(12)".
AdaptiveSimplifyIteration ==
    /\ sim.pc = "search"
    /\ sim.s.iteration < SearchIterations
    /\ sim' = [sim EXCEPT !.s = SearchStep(sim.s, sim.polygon,
                                           SimParams.max_points, SimParams)]
    /\ UNCHANGED <<raw, input, output, ops>>

\* After the loop: the fallback when the search found nothing, and the
\* report of simplify_polygon.
AdaptiveSimplifyReturn ==
    /\ sim.pc = "search"
    /\ sim.s.iteration = SearchIterations
    /\ sim' = [pc |-> "returned", polygon |-> sim.polygon, s |-> sim.s,
               result |-> Report(sim.polygon,
                                 SearchResult(sim.s, sim.polygon,
                                              SimParams.max_points),
                                 SimParams)]
    /\ UNCHANGED <<raw, input, output, ops>>

NextSimplify ==
    \/ SimplifyPolygonCall
    \/ AdaptiveSimplifyIteration
    \/ AdaptiveSimplifyReturn

SpecSimplify == InitSimplify /\ [][NextSimplify]_vars

----------------------------------------------------------------------------
(* The Normalizer: the results of one tile become predictions.  A result   *)
(* is the list of its boxes, tile-local, each with the largest contour of  *)
(* its mask as find_contours returns it, a list of (row, col) points, <<>>  *)
(* when the mask has no contour; masks tells whether the result carries     *)
(* masks at all.  A patch is <<x, y>>, its offset in the slide.             *)

\* ImprovedWSIYOLOPipeline._create_polygon_from_mask
_create_polygon_from_mask(masks, contour, patch) ==
    IF masks /\ contour # <<>>
    THEN [k \in DOMAIN contour |->
             <<contour[k][2] + patch[1], contour[k][1] + patch[2]>>]
    ELSE <<>>

\* ImprovedWSIYOLOPipeline._process_yolo_result
_process_yolo_result(result, patch) ==
    LET box_area(b) == (b.box[3] - b.box[1]) * (b.box[4] - b.box[2])
        Sized(b) == 100 <= box_area(b) /\ box_area(b) <= 50000
        sized == SelectSeq(result.boxes, Sized)
    IN  [k \in DOMAIN sized |->
            Prediction(sized[k].class_name,
                       BoxOf(sized[k].box[1], sized[k].box[2],
                             sized[k].box[3], sized[k].box[4]),
                       sized[k].conf,
                       _create_polygon_from_mask(result.masks,
                                                 sized[k].contour, patch))]

\* YOLOInference._mask_to_polygon
_mask_to_polygon(contour, offset_x, offset_y) ==
    LET Of(coords) ==
            IF Len(coords) >= 3
            THEN IF is_valid(ExteriorCoords(coords))
                 THEN OpenCoords(_smart_simplify_polygon(
                                     ExteriorCoords(coords), 60, PolygonMerger))
                 ELSE coords
            ELSE <<>>
    IN  Of([k \in DOMAIN contour |->
               <<offset_x + contour[k][2], offset_y + contour[k][1]>>])

\* YOLOInference._process_segmentation_results
_process_segmentation_results(result, patch_info) ==
    LET min_size == 20
        Sized(b) == /\ b.box[3] - b.box[1] >= min_size
                    /\ b.box[4] - b.box[2] >= min_size
        sized == SelectSeq(result.boxes, Sized)
    IN  IF ~result.masks THEN <<>>
        ELSE [k \in DOMAIN sized |->
                 Prediction(sized[k].class_name,
                            BoxOf(patch_info[1] + sized[k].box[1],
                                  patch_info[2] + sized[k].box[2],
                                  patch_info[1] + sized[k].box[3],
                                  patch_info[2] + sized[k].box[4]),
                            sized[k].conf,
                            _mask_to_polygon(sized[k].contour,
                                             patch_info[1], patch_info[2]))]

\* One box of a result with the contour of its mask.
Found(class_name, conf, box, contour) ==
    [class_name |-> class_name, conf |-> conf, box |-> box,
     contour |-> contour]

\* The contour around rows r1..r2 and columns c1..c2, closed.
Contour(r1, c1, r2, c2) ==
    <<<<r1, c1>>, <<r1, c2>>, <<r2, c2>>, <<r2, c1>>, <<r1, c1>>>>

\* The most boxes in one result.
MaxFound == 2

\* Boxes of area 100 (the least accepted), 90, 600 and 62500 (too large),
\* with and without a contour.
FoundCatalogue ==
    { Found("lp", 90, BoxOf(3, 2, 13, 12), Contour(2, 3, 12, 13)),
      Found("lp", 85, BoxOf(3, 2, 12, 12), Contour(2, 3, 12, 12)),
      Found("mild", 80, BoxOf(5, 10, 35, 30), Contour(10, 5, 30, 35)),
      Found("mild", 75, BoxOf(5, 10, 35, 30), <<>>),
      Found("mild", 95, BoxOf(0, 0, 250, 250), Contour(0, 0, 25, 25)) }

Patches == {<<0, 0>>, <<40, 0>>, <<0, 30>>, <<40, 30>>}

InitNormalize ==
    /\ raw \in {[patch |-> patch, masks |-> masks, boxes |-> boxes] :
                   patch \in Patches, masks \in BOOLEAN,
                   boxes \in SeqsUpTo(FoundCatalogue, MaxFound)}
    /\ input = <<>>
    /\ output = <<>>
    /\ ops = <<>>
    /\ sim = SimIdle

ProcessYoloResult ==
    /\ ops = <<>>
    /\ output' = _process_yolo_result(raw, raw.patch)
    /\ ops' = <<"_process_yolo_result">>
    /\ UNCHANGED <<raw, input, sim>>

ProcessSegmentationResults ==
    /\ ops = <<>>
    /\ output' = _process_segmentation_results(raw, raw.patch)
    /\ ops' = <<"_process_segmentation_results">>
    /\ UNCHANGED <<raw, input, sim>>

NextNormalize ==
    \/ ProcessYoloResult
    \/ ProcessSegmentationResults

SpecNormalize == InitNormalize /\ [][NextNormalize]_vars

----------------------------------------------------------------------------
(* _smart_simplify_polygon on its own: valid polygons of 5 to 65            *)
(* coordinates and the limits 60 and 40 of _polygon_to_prediction, and 10.  *)

SmartCatalogue ==
    { ExteriorCoords(Rect(0, 0, 10, 10)),
      Dotted(4), Dotted(5), Dotted(16),
      Comb(3, 12, 12, 12, 12), Comb(4, 5, 5, 10, 5), Comb(11, 6, 6, 10, 6),
      Comb(16, 2, 2, 20, 1), Comb(16, 4, 4, 10, 4),
      Bulged, Jagged, Sliver(8), Sliver(30) }

SmartLimits == {10, 40, 60}

InitSmart ==
    /\ raw = <<>>
    /\ input = <<>>
    /\ output = <<>>
    /\ ops = <<>>
    /\ sim \in {[pc |-> "called", polygon |-> polygon,
                 max_points |-> max_points] :
                   polygon \in SmartCatalogue, max_points \in SmartLimits}

\* _smart_simplify_polygon of the merger m returns.
SmartReturn(name, m) ==
    /\ sim' = [pc |-> "done", polygon |-> sim.polygon,
               max_points |-> sim.max_points,
               result |-> _smart_simplify_polygon(sim.polygon,
                                                  sim.max_points, m)]
    /\ ops' = <<name>>
    /\ UNCHANGED <<raw, input, output>>

SmartSimplifyPolygon ==
    /\ sim.pc = "called"
    /\ SmartReturn("ImprovedPolygonMerger._smart_simplify_polygon",
                   ImprovedMerger)

OriginalSmartSimplifyPolygon ==
    /\ sim.pc = "called"
    /\ SmartReturn("PolygonMerger._smart_simplify_polygon", PolygonMerger)

NextSmart ==
    \/ SmartSimplifyPolygon
    \/ OriginalSmartSimplifyPolygon

SpecSmart == InitSmart /\ [][NextSmart]_vars

----------------------------------------------------------------------------
(* Detections as objects.  The stages take and return lists of references   *)
(* to Prediction objects and some assign to fields of the objects they are  *)
(* given.  Here object k is heap[k], a list is a sequence of such k, raw    *)
(* holds the objects as they were handed in, input the list passed, output  *)
(* the list returned and sim.heap the objects as they are now.              *)

\* Box.intersects
intersects(a, b) == intersection_area(a, b) > 0

\* PolygonMerger._merge_boxes
_merge_boxes(box1, box2) ==
    BoxOf(Min(box1[1], box2[1]), Min(box1[2], box2[2]),
          Max(box1[3], box2[3]), Max(box1[4], box2[4]))

\* sorted(class_predictions, key=lambda x: x.conf, reverse=True), on
\* references.
SortedRefsByConf(refs, heap) ==
    LET tagged == SortedByConf([k \in DOMAIN refs |->
                                   [ref |-> refs[k], conf |-> heap[refs[k]].conf]])
    IN  [k \in DOMAIN tagged |-> tagged[k].ref]

\* "for pred in sorted_preds" of merge_overlapping_boxes: the objects and
\* merged_class_preds after the loop.
RECURSIVE MergeBoxesLoop(_, _, _)
MergeBoxesLoop(sorted_preds, merged_class_preds, heap) ==
    IF sorted_preds = <<>>
    THEN [heap |-> heap, result |-> merged_class_preds]
    ELSE LET pred == heap[Head(sorted_preds)]
             Hit(k) == /\ intersects(pred.box, heap[merged_class_preds[k]].box)
                       /\ IouAbove(pred.box, heap[merged_class_preds[k]].box,
                                   iou_threshold)
             hits == {k \in DOMAIN merged_class_preds : Hit(k)}
             Merged(merge_with) ==
                 [heap EXCEPT
                     ![merge_with].box =
                         _merge_boxes(pred.box, heap[merge_with].box),
                     ![merge_with].conf =
                         Max(pred.conf, heap[merge_with].conf)]
         IN  IF hits # {}
             THEN MergeBoxesLoop(Tail(sorted_preds), merged_class_preds,
                      Merged(merged_class_preds[
                                 CHOOSE k \in hits : \A j \in hits : k <= j]))
             ELSE MergeBoxesLoop(Tail(sorted_preds),
                      Append(merged_class_preds, Head(sorted_preds)), heap)

\* "for class_name, class_predictions in grouped.items()" of
\* merge_overlapping_boxes.
RECURSIVE MergeBoxesClasses(_, _, _, _)
MergeBoxesClasses(classes, refs, merged_predictions, heap) ==
    IF classes = <<>>
    THEN [heap |-> heap, result |-> merged_predictions]
    ELSE LET Mine(ref) == heap[ref].class_name = Head(classes)
             Next(done) ==
                 MergeBoxesClasses(Tail(classes), refs,
                                   merged_predictions \o done.result,
                                   done.heap)
         IN  Next(MergeBoxesLoop(
                      SortedRefsByConf(SelectSeq(refs, Mine), heap),
                      <<>>, heap))

\* PolygonMerger.merge_overlapping_boxes
merge_overlapping_boxes(refs, heap) ==
    IF Len(refs) <= 1 THEN [heap |-> heap, result |-> refs]
    ELSE MergeBoxesClasses(
             ClassOrder([k \in DOMAIN refs |-> heap[refs[k]]], <<>>),
             refs, <<>>, heap)

\* ImprovedWSIYOLOPipeline._adaptive_simplify_predictions on references:
\* pred.polygon and pred.simplification_metrics are assigned on the object
\* and the same reference is appended.
SimplifyObjects(refs, heap) ==
    [heap |-> [k \in DOMAIN heap |->
                  IF k \in Range(refs) THEN AdaptiveSimplifyOne(heap[k])
                  ELSE heap[k]],
     result |-> refs]

\* The longest list of objects.
MaxObjects == 2

ObjectCatalogue ==
    IouCatalogue
    \cup { Det("mild", 90, Rect(0, 0, 10, 10)),
           Det("mild", 85, Rect8(0, 0, 10, 10)),
           Det("lp", 85, NotchedL) }

InitObjects ==
    /\ raw \in SeqsUpTo(ObjectCatalogue, MaxObjects)
    /\ input = [k \in DOMAIN raw |-> k]
    /\ output = input
    /\ ops = <<>>
    /\ sim = [pc |-> "objects", heap |-> raw]

\* A stage was called with the list and has returned.
Called(name, done) ==
    /\ sim' = [sim EXCEPT !.heap = done.heap]
    /\ output' = done.result
    /\ ops' = <<name>>
    /\ UNCHANGED <<raw, input>>

AdaptiveSimplifyObjects ==
    /\ ops = <<>>
    /\ Called("_adaptive_simplify_predictions",
              SimplifyObjects(input, sim.heap))

MergeOverlappingBoxes ==
    /\ ops = <<>>
    /\ Called("merge_overlapping_boxes",
              merge_overlapping_boxes(input, sim.heap))

NextObjects ==
    \/ AdaptiveSimplifyObjects
    \/ MergeOverlappingBoxes

SpecObjects == InitObjects /\ [][NextObjects]_vars

\* get_filtering_statistics: the totals, filtered_out, and for each class of
\* the original list its counts in the two lists.  filtering_ratio is left
\* out.
get_filtering_statistics(original_predictions, filtered_predictions) ==
    LET Count(predictions, class_name) ==
            Cardinality({i \in DOMAIN predictions :
                            predictions[i].class_name = class_name})
        classes == {original_predictions[i].class_name :
                        i \in DOMAIN original_predictions}
    IN  [total_original |-> Len(original_predictions),
         total_filtered |-> Len(filtered_predictions),
         filtered_out |-> Len(original_predictions) - Len(filtered_predictions),
         class_statistics |->
             [class_name \in classes |->
                 [original |-> Count(original_predictions, class_name),
                  filtered |-> Count(filtered_predictions, class_name)]]]

----------------------------------------------------------------------------
(* C1 *)

\* The threshold, in tenths, of the duplicate filter that ran last.
RanThreshold ==
    IF ops = <<"filter_by_improved_iou">> THEN improved_iou_threshold
    ELSE iou_threshold

RanDuplicateFilter ==
    ops \in {<<"filter_by_improved_iou">>, <<"filter_by_iou">>}

\* q is visited before p: higher confidence, or equal confidence and
\* earlier in the argument.
\* p and q are positions in the argument list.
VisitedBefore(q, p) ==
    \/ input[q].conf > input[p].conf
    \/ input[q].conf = input[p].conf /\ q < p

\* The IoU of two boxes exceeds tenths/10, written out from the boxes.
ExceedsThreshold(a, b, tenths) ==
    LET w == Min(a[3], b[3]) - Max(a[1], b[1])
        h == Min(a[4], b[4]) - Max(a[2], b[2])
        inter == (IF w > 0 THEN w ELSE 0) * (IF h > 0 THEN h ELSE 0)
        uni == (a[3] - a[1]) * (a[4] - a[2]) + (b[3] - b[1]) * (b[4] - b[2])
               - inter
    IN  uni > 0 /\ 10 * inter > tenths * uni

----------------------------------------------------------------------------
(* C2 *)

RanNestedFilter == ops = <<"_filter_nested_objects">>

\* The list given to the nested filter: two or more detections of one
\* class, each with a valid polygon.
NestedFilterInput ==
    /\ Len(input) >= 2
    /\ \A i \in DOMAIN input : HasValidPolygon(input[i])

\* The polygon of input[i] lies entirely inside the polygon of the larger
\* input[j].
LiesInsideLarger(i, j) ==
    /\ i # j
    /\ within(PolygonOf(input[i]), PolygonOf(input[j]))
    /\ Area2(PolygonOf(input[j])) > Area2(PolygonOf(input[i]))

IsKept(pred) == pred \in Range(output)

\* C2 as claimed: the nested filter's output holds no detection whose
\* polygon lies entirely inside the polygon of another, larger detection of
\* the input list.
C2_NestedInAnyRemoved ==
    (RanNestedFilter /\ NestedFilterInput) =>
        \A i, j \in DOMAIN input :
            LiesInsideLarger(i, j) => ~IsKept(input[i])

\* C2, amended: the nested filter's output holds no detection whose polygon
\* lies entirely inside the polygon of another, larger detection of the
\* input list that the filter keeps, whatever the confidences and the
\* input order.
C2_NestedInKeptRemoved ==
    (RanNestedFilter /\ NestedFilterInput) =>
        \A i, j \in DOMAIN input :
            (LiesInsideLarger(i, j) /\ IsKept(input[j])) => ~IsKept(input[i])

\* A detection with the higher confidence, earlier in the list, was removed
\* for lying inside a larger detection that was kept.
C2_Witness ==
    /\ RanNestedFilter
    /\ NestedFilterInput
    /\ \E i, j \in DOMAIN input :
           /\ LiesInsideLarger(i, j)
           /\ i < j
           /\ input[i].conf > input[j].conf
           /\ IsKept(input[j])
           /\ ~IsKept(input[i])

----------------------------------------------------------------------------
(* C3 *)

RanMergeClass == ops = <<"_merge_class_predictions">>

\* The list given to the merger: two or more detections of one class, each
\* with a valid polygon.
MergeClassInput ==
    /\ Len(input) >= 2
    /\ \A i \in DOMAIN input : HasValidPolygon(input[i])

InputPolygons == [k \in DOMAIN input |-> PolygonOf(input[k])]

\* The grid of the input polygons, the region they cover and its maximal
\* connected components.
InputGrid == GridOf(InputPolygons)

InputRegion ==
    UNION {CellsOf(InputPolygons[k], InputGrid) : k \in DOMAIN input}

InputComponents == Components(InputRegion)

\* The region covered by the polygon of an output detection.
OutputCells(k) == CellsOf(PolygonOf(output[k]), InputGrid)

\* The cells outside the component C: those not in C that the border of
\* the grid is connected to.
OutsideOf(C, g) ==
    LET rest   == GridCells(g) \ C
        border == {c \in rest : \/ c[1] \in {1, Len(g.xs) - 1}
                                \/ c[2] \in {1, Len(g.ys) - 1}}
    IN  IF border = {} THEN {} ELSE Grow(border, rest)

\* The component with its holes filled in.
Filled(C, g) == GridCells(g) \ OutsideOf(C, g)

\* The polygon built for the component C: its exterior ring, simplified
\* when it has more than max_points coordinates.
BuiltFrom(C) ==
    LET ring == ExteriorOf(C, InputGrid, UNION {Range(InputPolygons[k]) :
                                                   k \in DOMAIN input})
        max_points == MaxPointsOf(input[1].class_name, ImprovedMerger)
    IN  [ring |-> ring,
         polygon |-> OpenCoords(IF Len(ring) > max_points
                                THEN _smart_simplify_polygon(
                                         ring, max_points, ImprovedMerger)
                                ELSE ring),
         simplified |-> Len(ring) > max_points]

\* C3 as claimed: the merger's output polygons cover the region the input
\* polygons cover, and they are exactly the maximal connected components
\* of that region, pairwise disjoint.
C3_RegionAndComponents ==
    (RanMergeClass /\ MergeClassInput) =>
        /\ UNION {OutputCells(k) : k \in DOMAIN output} = InputRegion
        /\ Len(output) = Len(InputComponents)
        /\ \A k \in DOMAIN output : OutputCells(k) \in Range(InputComponents)
        /\ \A k, l \in DOMAIN output :
               k # l => OutputCells(k) \cap OutputCells(l) = {}

\* C3, amended: every maximal connected component of the input region with
\* an area of at least min_area yields exactly one output detection, whose
\* polygon is the exterior ring of the component (simplified when the ring
\* has more than max_points coordinates) and, unsimplified, covers the
\* component with its holes filled in.
C3_ComponentsBuilt ==
    (RanMergeClass /\ MergeClassInput) =>
        \A n \in DOMAIN InputComponents :
            LET C == InputComponents[n]
                built == BuiltFrom(C)
                from == {k \in DOMAIN output :
                            output[k].polygon = built.polygon}
            IN  RegionArea(C, InputGrid) >= min_area =>
                    /\ Cardinality(from) = 1
                    /\ \A k \in from :
                           /\ output[k].class_name = input[1].class_name
                           /\ built.simplified
                              \/ OutputCells(k) = Filled(C, InputGrid)

\* Two components, one of at least min_area and one below it, gave one
\* output detection.
C3_Witness ==
    /\ RanMergeClass
    /\ MergeClassInput
    /\ Len(InputComponents) = 2
    /\ Cardinality({n \in DOMAIN InputComponents :
           RegionArea(InputComponents[n], InputGrid) >= min_area}) = 1
    /\ Len(output) = 1

----------------------------------------------------------------------------
(* C4 *)

RanOriginalMergeClass == ops = <<"PolygonMerger._merge_class_predictions">>

\* C4: after _merge_class_predictions of either merger, no output
\* detection comes from a union piece whose area is below min_area, and
\* when every piece of the union is below min_area the output is empty.
C4_SmallPiecesDropped ==
    \A m \in {ImprovedMerger, PolygonMerger} :
        (/\ MergeClassInput
         /\ IF m = ImprovedMerger THEN RanMergeClass
            ELSE RanOriginalMergeClass) =>
            LET small == {n \in DOMAIN InputComponents :
                             RegionArea(InputComponents[n], InputGrid)
                                 < m.min_area}
            IN  /\ \A n \in small : \A k \in DOMAIN output :
                       OutputCells(k) # InputComponents[n]
                /\ small = DOMAIN InputComponents => output = <<>>

----------------------------------------------------------------------------
(* C5 *)

RanPipeline ==
    ops = <<"merge_predictions", "_adaptive_simplify_predictions">>

\* C5: two detections of one class, each with a polygon, whose boxes have
\* an IoU above the duplicate threshold leave the pipeline
\* (merge_predictions, then the simplification stage) as exactly one
\* detection.
C5_DuplicatesBecomeOne ==
    (/\ RanPipeline
     /\ Len(raw) = 2
     /\ raw[1].class_name = raw[2].class_name
     /\ raw[1].polygon # <<>> /\ raw[2].polygon # <<>>
     /\ IouAbove(raw[1].box, raw[2].box, improved_iou_threshold)) =>
        Len(output) = 1

----------------------------------------------------------------------------
(* C6 *)

RanMergeTwice == ops = <<"merge_predictions", "merge_predictions">>

\* The polygons of two detections share a point: on a common grid a cell
\* of one is a cell of the other or next to one, corners included.
Touching(pred1, pred2) ==
    LET g == GridOf(<<PolygonOf(pred1), PolygonOf(pred2)>>)
    IN  \E c \in CellsOf(PolygonOf(pred1), g) :
            \E d \in CellsOf(PolygonOf(pred2), g) :
                Abs(c[1] - d[1]) <= 1 /\ Abs(c[2] - d[2]) <= 1

\* A merged and filtered set of one class, with valid polygons that do not
\* touch each other.
MergedSet(predictions) ==
    /\ predictions # <<>>
    /\ OneClass(predictions)
    /\ \A i \in DOMAIN predictions : HasValidPolygon(predictions[i])
    /\ \A i, j \in DOMAIN predictions :
           i # j => ~Touching(predictions[i], predictions[j])

Described(pred) == <<pred.class_name, pred.polygon, pred.conf>>

\* C6: merge_predictions applied to its own output, a set of one class
\* with valid polygons that do not touch, returns the same detections: the
\* same count, classes, polygons and confidences.
C6_MergeIdempotent ==
    (RanMergeTwice /\ MergedSet(input)) =>
        /\ Len(output) = Len(input)
        /\ {Described(output[k]) : k \in DOMAIN output}
               = {Described(input[k]) : k \in DOMAIN input}

----------------------------------------------------------------------------
(* C7 *)

\* The polygon of the detection covers the polygon of the raw detection.
Covers(pred, rawPred) ==
    LET g == GridOf(<<PolygonOf(pred), PolygonOf(rawPred)>>)
    IN  CellsOf(PolygonOf(rawPred), g) \subseteq CellsOf(PolygonOf(pred), g)

\* The vertex count of a detection that left the simplification stage is
\* within the target of the profile chosen for it.
WithinTarget(pred) ==
    Len(pred.polygon)
        <= ParamsFor(pred.simplification_metrics.original_points).max_points

\* C7: for the three detections A, B and C of one class, the pipeline
\* outputs exactly two detections, one with a polygon covering A and B and
\* C unchanged, each with a vertex count within its profile's target.
C7_ScenarioOutput ==
    (RanPipeline /\ raw \in {Scenario("lp"), Scenario("mild")}) =>
        /\ Len(output) = 2
        /\ \E k \in DOMAIN output :
               Covers(output[k], raw[1]) /\ Covers(output[k], raw[2])
        /\ \E k \in DOMAIN output :
               /\ output[k].class_name = raw[3].class_name
               /\ output[k].conf = raw[3].conf
               /\ output[k].polygon = raw[3].polygon
               /\ output[k].box = raw[3].box
        /\ \A k \in DOMAIN output : WithinTarget(output[k])

----------------------------------------------------------------------------
(* C8 *)

Returned == sim.pc = "returned"

\* The call went through the search and left it for _fallback_simplify.
TookFallback ==
    /\ Returned
    /\ "s" \in DOMAIN sim
    /\ NeedsFallback(sim.s, SimParams.max_points)

\* C8: whenever simplify_polygon has left the search for the fallback path,
\* the number of points of its report is at most the target of the profile.
C8_FallbackWithinTarget ==
    TookFallback =>
        sim.result.metrics.simplified_points <= SimParams.max_points

----------------------------------------------------------------------------
(* C9 *)

ReportedMethod ==
    IF Returned /\ "method" \in DOMAIN sim.result.metrics
    THEN sim.result.metrics.method ELSE "none"

\* C9: a result of simplify_polygon reported with method douglas_peucker
\* has a ratio of simplified to original area of at least the
\* area_preservation_threshold of the profile chosen for the polygon, and
\* no more points than the profile's target.
C9_DouglasPeuckerAreaFloor ==
    ReportedMethod = "douglas_peucker" =>
        /\ 100 * sim.result.metrics.area_preserved[1]
               >= SimParams.area_preservation_threshold
                      * sim.result.metrics.area_preserved[2]
        /\ sim.result.metrics.simplified_points <= SimParams.max_points

\* A douglas_peucker result that changed the area and dropped points.
C9_Witness ==
    /\ ReportedMethod = "douglas_peucker"
    /\ sim.result.metrics.area_preserved[1]
           # sim.result.metrics.area_preserved[2]
    /\ sim.result.metrics.simplified_points
           < sim.result.metrics.original_points

----------------------------------------------------------------------------
(* C10 *)

\* A valid ring with no more points than the target of its profile.
WithinBudget(ring) ==
    /\ is_valid(ring)
    /\ Len(ring) <= ParamsFor(Len(ring)).max_points

\* C10: a polygon within the target of its profile comes back with method
\* no_simplification_needed and the same vertex list and area, from
\* simplify_polygon and from the simplification stage of the pipeline,
\* which stores the result on the detection.
C10_NoOpStable ==
    /\ (Returned /\ WithinBudget(sim.polygon)) =>
           /\ ReportedMethod = "no_simplification_needed"
           /\ sim.result.polygon = sim.polygon
           /\ Area2(sim.result.polygon) = Area2(sim.polygon)
    /\ RanPipeline =>
           \A k \in DOMAIN input :
               (/\ HasValidPolygon(input[k])
                /\ WithinBudget(PolygonOf(input[k]))) =>
                   /\ "simplification_metrics" \in DOMAIN output[k]
                   /\ output[k].simplification_metrics.method
                          = "no_simplification_needed"
                   /\ output[k].polygon = input[k].polygon
                   /\ Area2(PolygonOf(output[k])) = Area2(PolygonOf(input[k]))

----------------------------------------------------------------------------
(* C11 *)

\* simplify_polygon runs to its end: weak fairness of its steps,
\* WF_vars(NextSimplify), with ENABLED <<NextSimplify>>_vars written out:
\* a step is possible exactly while the call has not returned.
SpecSimplifyLive ==
    /\ SpecSimplify
    /\ []<>(sim.pc = "returned") \/ []<><<NextSimplify>>_vars

\* C11: every call of simplify_polygon reaches the state in which it has
\* returned a polygon and a report, and the search of _adaptive_simplify
\* never makes more than 12 trial simplifications.
C11_SimplifyTerminates ==
    /\ <>(Returned /\ DOMAIN sim.result = {"polygon", "metrics"})
    /\ [](sim.pc = "search" => sim.s.iteration <= 12)

\* A call that returned after all the iterations of the search.
C11_Witness ==
    /\ Returned
    /\ is_valid(sim.polygon)
    /\ "s" \in DOMAIN sim
    /\ sim.s.iteration = 12

----------------------------------------------------------------------------
(* C12 *)

\* C12: the method in the report of simplify_polygon for a valid polygon
\* is douglas_peucker, key_points_preservation, adaptive_sampling or
\* no_simplification_needed, and when the search and the key points both
\* fail it is adaptive_sampling.
C12_ReportedMethods ==
    (Returned /\ is_valid(sim.polygon)) =>
        /\ ReportedMethod \in {"douglas_peucker", "key_points_preservation",
                               "adaptive_sampling",
                               "no_simplification_needed"}
        /\ (TookFallback /\ ReportedMethod # "key_points_preservation") =>
               ReportedMethod = "adaptive_sampling"

----------------------------------------------------------------------------
(* C13 *)

RanShortFilter == ops = <<"_filter_short_segments">>

\* A detection of class lp with a polygon of fewer than min_polygon_points
\* vertices.  A detection that carries no polygon (None) has no contour to
\* count and is not one of these.
ShortContour(pred) ==
    /\ pred.class_name = "lp"
    /\ Len(pred.polygon) \in 1..(min_polygon_points - 1)

\* C13: _filter_short_segments removes every lp detection whose polygon
\* has fewer than min_polygon_points vertices and returns all the other
\* detections unchanged, in the order of the input.
C13_ShortContoursRemoved ==
    RanShortFilter =>
        LET others == SortedSeq({i \in DOMAIN input : ~ShortContour(input[i])})
        IN  /\ \A k \in DOMAIN output : ~ShortContour(output[k])
            /\ Len(output) = Len(others)
            /\ \A k \in DOMAIN output : output[k] = input[others[k]]

\* A short lp contour was removed and a detection after it was kept.
C13_Witness ==
    /\ RanShortFilter
    /\ Len(input) = 2
    /\ ShortContour(input[1])
    /\ output = <<input[2]>>
    /\ input[2].class_name = "lp"
    /\ Len(input[2].polygon) = min_polygon_points

----------------------------------------------------------------------------
(* C14 *)

\* C14 as stated: every detection returned by _merge_class_predictions
\* has confidence exactly 0.8, whatever the input.
C14_EveryConfidenceFixed ==
    RanMergeClass => \A k \in DOMAIN output : output[k].conf = 80

\* C14: _merge_class_predictions either returns the detections it was
\* given, as given (a class of at most one detection, no valid polygon, or
\* no merged piece of at least min_area), or every detection it returns
\* has confidence exactly 0.8, whatever the confidences of the inputs.
C14_MergedConfidenceFixed ==
    RanMergeClass =>
        \/ output = input
        \/ \A k \in DOMAIN output : output[k].conf = 80

\* Two detections with confidences other than 0.8 were merged into one.
C14_Witness ==
    /\ RanMergeClass
    /\ Len(input) = 2
    /\ \A i \in DOMAIN input : input[i].conf # 80
    /\ Len(output) = 1
    /\ output # input
    /\ output[1].conf = 80

----------------------------------------------------------------------------
(* C15 *)

\* The stored vertex list repeats its first vertex at the end.
ClosingPointStored(pred) ==
    /\ Len(pred.polygon) >= 2
    /\ pred.polygon[1] = pred.polygon[Len(pred.polygon)]

\* C15: every polygon of the final list is an open ring, its first and
\* last stored vertices differing, both in the list the merger emits and in
\* the list after the adaptive simplification stage.
C15_OpenRings ==
    (ops = <<"merge_predictions">> \/ RanPipeline) =>
        \A k \in DOMAIN output : ~ClosingPointStored(output[k])

----------------------------------------------------------------------------
(* C16 *)

\* The prediction is a box of the tile's result with the tile's offset
\* added to each corner of the box and to each point of the contour.
Globalised(pred, found, patch) ==
    /\ pred.class_name = found.class_name
    /\ pred.conf = found.conf
    /\ pred.box = BoxOf(found.box[1] + patch[1], found.box[2] + patch[2],
                        found.box[3] + patch[1], found.box[4] + patch[2])
    /\ \/ pred.polygon = <<>>
       \/ /\ Len(pred.polygon) = Len(found.contour)
          /\ \A k \in DOMAIN pred.polygon :
                 pred.polygon[k] = <<found.contour[k][2] + patch[1],
                                     found.contour[k][1] + patch[2]>>

\* C16: every detection that the pipeline's Normalizer
\* (_process_yolo_result) hands to the merge is a raw detection of the
\* tile with its box and its polygon in global coordinates: each box
\* corner and each polygon vertex is the tile-local coordinate plus the
\* tile's offset.
C16_GlobalCoordinates ==
    ops = <<"_process_yolo_result">> =>
        \A k \in DOMAIN output :
            \E i \in DOMAIN raw.boxes :
                Globalised(output[k], raw.boxes[i], raw.patch)

----------------------------------------------------------------------------
(* C17 *)

\* C17: whatever the input list, no detection of class lp in the output
\* of merge_predictions has a polygon of fewer than min_polygon_points (8)
\* vertices.
C17_NoShortThinOutput ==
    (ops # <<>> /\ ops[Len(ops)] = "merge_predictions") =>
        \A k \in DOMAIN output :
            ~(/\ output[k].class_name = "lp"
              /\ output[k].polygon # <<>>
              /\ Len(output[k].polygon) < 8)

----------------------------------------------------------------------------
(* C18 *)

RanMerge == ops # <<>> /\ ops[Len(ops)] = "merge_predictions"

\* The class name is the background class in some spelling.
IsBackground(pred) ==
    pred.class_name \in {"background", "Background"}

\* C18: whatever the input list, no detection whose class name equals the
\* configured background class, compared without regard to case, is in the
\* output of merge_predictions.
C18_NoBackgroundOutput ==
    RanMerge => \A k \in DOMAIN output : ~IsBackground(output[k])

\* A list with a detection of class "Background" and a detection of
\* another class was merged, and the other detection came out.
C18_Witness ==
    /\ RanMerge
    /\ Len(input) = 2
    /\ input[1].class_name = "Background"
    /\ ~IsBackground(input[2])
    /\ Len(output) = 1

----------------------------------------------------------------------------
(* C19 *)

\* C19: at threshold 0.7, filter_by_improved_iou given the three lp
\* detections of test_improved_iou_filtering removes the second, whose box
\* partly overlaps the first's and has the lower confidence, and keeps the
\* third, whose box is disjoint from both: exactly two remain.
C19_TestListYieldsTwo ==
    (ops = <<"filter_by_improved_iou">> /\ input = IouTestPredictions) =>
        output = <<IouTestPredictions[1], IouTestPredictions[3]>>

----------------------------------------------------------------------------
(* C20 *)

\* C20: for every valid polygon, _smart_simplify_polygon(polygon,
\* max_points) returns a polygon whose exterior has at most max_points
\* coordinates, also when the search over the tolerance finds no candidate
\* and the coordinates are sampled with the stride len // max_points.
C20_WithinMaxPoints ==
    (sim.pc = "done" /\ is_valid(sim.polygon)) =>
        Len(sim.result) <= sim.max_points

----------------------------------------------------------------------------
(* C21 *)

\* One class's batch taken through the four stages in the stated order.
StagedClass(grouped) ==
    _merge_class_predictions(
        _filter_nested_objects(
            _filter_short_segments(
                filter_by_improved_iou(grouped))))

\* The batches of the classes, each taken through the stages, one after
\* the other in the order of the partition.
RECURSIVE StagedClasses(_, _)
StagedClasses(classes, predictions) ==
    IF classes = <<>> THEN <<>>
    ELSE StagedClass(_group_by_class(predictions, Head(classes)))
         \o StagedClasses(Tail(classes), predictions)

\* The list that the stages in the stated order make of the detections
\* that are not background.
Staged(predictions) ==
    StagedClasses(ClassOrder(_filter_background_class(predictions), <<>>),
                  _filter_background_class(predictions))

\* C21: in the full merge the detections of each class pass, in this
\* order, through the duplicate (IoU) filter, the short-contour filter, the
\* nested-object filter and the overlap merger, each stage taking what the
\* stage before it returned, and the adaptive simplifier is given the
\* result: the list the merge returns is the list these stages make.
C21_StagesInOrder ==
    /\ ops = <<"merge_predictions">> => output = Staged(input)
    /\ RanPipeline => input = Staged(raw)

----------------------------------------------------------------------------
(* C22 *)

\* The trial made last, at sim.s.tolerance, gave a valid polygon that
\* meets the area floor and has more points than the target.
FloorMetOverTarget ==
    /\ sim.pc = "search"
    /\ sim.s.iteration > 0
    /\ LET Over(simplified) ==
               /\ is_valid(simplified)
               /\ Len(simplified) >= 3
               /\ AreaPreserved(simplified, sim.polygon, SimParams)
               /\ Len(simplified) > SimParams.max_points
       IN  Over(simplify(sim.polygon, sim.s.tolerance))

\* C22: during the binary search, after a trial whose result meets the
\* area floor but has more points than the target, the later trials use a
\* strictly larger tolerance than that trial; stated for the trial that
\* follows it, the first of the later ones.
C22_NarrowsTowardFewerPoints ==
    [][(FloorMetOverTarget /\ sim'.pc = "search")
           => sim'.s.tolerance > sim.s.tolerance]_vars

----------------------------------------------------------------------------
(* C23 *)

\* simplify_polygon went through the binary search and has returned.
Searched == Returned /\ "s" \in DOMAIN sim

\* The binary search recorded a candidate: a trial that met the area floor
\* within the point budget.
CandidateRecorded == sim.s.best_metrics.method = "douglas_peucker"

\* The key points of the polygon are within the target and form a valid
\* polygon.
KeyPointsServe ==
    LET Serve(key_points) ==
            /\ Len(key_points) <= SimParams.max_points
            /\ BuildsValid([k \in DOMAIN key_points |->
                               sim.polygon[key_points[k]]])
    IN  Serve(_find_key_points(sim.polygon))

\* C23: simplify_polygon goes from the binary search to the key-point
\* fallback and from there to uniform sampling: a fallback result is
\* returned only when the binary search recorded no candidate, uniform
\* sampling is used only when the key points exceed the target or do not
\* form a valid polygon, and a candidate that the binary search recorded
\* is what is returned, never a fallback result.
C23_FallbackOrder ==
    Searched =>
        /\ ReportedMethod \in {"key_points_preservation", "adaptive_sampling",
                               "fallback_failed"}
               => ~CandidateRecorded
        /\ ReportedMethod \in {"adaptive_sampling", "fallback_failed"}
               => ~KeyPointsServe
        /\ CandidateRecorded
               => /\ ReportedMethod = "douglas_peucker"
                  /\ sim.result.polygon = sim.s.best_polygon

\* The search recorded no candidate, the key points did not serve and
\* uniform sampling gave the result.
C23_Witness ==
    /\ Searched
    /\ ~CandidateRecorded
    /\ ReportedMethod = "adaptive_sampling"

----------------------------------------------------------------------------
(* C24 *)

\* The profile for a count of vertices: its name, target and floor (in
\* hundredths).
ProfileOf(vertices) ==
    IF vertices < 20 THEN <<"simple", 15, 95>>
    ELSE IF vertices > 200 THEN <<"complex", 80, 98>>
    ELSE <<"medium", 60, 97>>

\* C24: simplify_polygon selects the profile from the number of distinct
\* vertices of the ring, the closing point not counted: fewer than 20
\* selects simple (target 15, floor 0.95), more than 200 complex (target
\* 80, floor 0.98), and 20 to 200 medium (target 60, floor 0.97).
C24_ProfileByVertexCount ==
    (Returned /\ is_valid(sim.polygon)) =>
        /\ sim.result.metrics.complexity
               = ProfileOf(Len(OpenCoords(sim.polygon)))[1]
        /\ SimParams.max_points = ProfileOf(Len(OpenCoords(sim.polygon)))[2]
        /\ SimParams.area_preservation_threshold
               = ProfileOf(Len(OpenCoords(sim.polygon)))[3]

----------------------------------------------------------------------------
(* C25 *)

\* C25: no stage changes a detection it was given: after the pipeline's
\* simplification stage and after merge_overlapping_boxes every object of
\* the list passed in has the box, the confidence and the polygon it had
\* on entry.
C25_InputsNotMutated ==
    (sim.pc = "objects" /\ ops # <<>>) =>
        \A k \in DOMAIN raw :
            /\ sim.heap[k].box = raw[k].box
            /\ sim.heap[k].conf = raw[k].conf
            /\ sim.heap[k].polygon = raw[k].polygon

----------------------------------------------------------------------------
(* C26 *)

\* The detection has a polygon of fewer than 3 points or one that
\* intersects itself.
InvalidGeometry(pred) ==
    /\ pred.polygon # <<>>
    /\ \/ Len(pred.polygon) < 3
       \/ ~is_valid(PolygonOf(pred))

\* C26: a detection whose polygon has fewer than 3 points or intersects
\* itself is dropped: whatever the other detections of its class, it is
\* not in the output of merge_predictions.
C26_InvalidGeometryDropped ==
    ops = <<"merge_predictions">> =>
        \A k \in DOMAIN output : ~InvalidGeometry(output[k])

----------------------------------------------------------------------------
(* C27 *)

\* _merge_class_predictions of either merger was called with two or more
\* detections, so that it came to build the operands of the union.
BuiltOperands ==
    /\ RanMergeClass \/ RanOriginalMergeClass
    /\ Len(input) >= 2

\* C27: every polygon given to the planar union in
\* _merge_class_predictions is valid and has at least 3 points, and a
\* detection whose polygon is missing, too short or invalid is not among
\* the operands.
C27_UnionOperandsValid ==
    BuiltOperands =>
        /\ \A k \in DOMAIN UnionOperands(input) :
               /\ is_valid(UnionOperands(input)[k])
               /\ Len(OpenCoords(UnionOperands(input)[k])) >= 3
        /\ Len(UnionOperands(input))
               = Cardinality({i \in DOMAIN input :
                                 /\ input[i].polygon # <<>>
                                 /\ ~InvalidGeometry(input[i])})

\* A class of a valid polygon and a self-intersecting one of area above
\* min_area: the valid one alone was the operand, and came out merged.
C27_Witness ==
    /\ BuiltOperands
    /\ Len(input) = 2
    /\ \E i \in DOMAIN input : InvalidGeometry(input[i])
    /\ Len(UnionOperands(input)) = 1
    /\ Len(output) = 1
    /\ output[1].conf = 80

----------------------------------------------------------------------------
(* C28 *)

\* The detections of the list that carry the class name, in their order.
OfClass(predictions, class_name) ==
    LET Mine(pred) == pred.class_name = class_name
    IN  SelectSeq(predictions, Mine)

\* The class names of the list.
ClassNames(predictions) ==
    {predictions[i].class_name : i \in DOMAIN predictions}

\* C28: what merge_predictions outputs for a class is what it outputs for
\* the input detections of that class alone, whatever the detections of
\* the other classes are and wherever they stand, and every output
\* detection is of a class of the input.
C28_ClassesIndependent ==
    ops = <<"merge_predictions">> =>
        /\ \A class_name \in ClassNames(input) :
               OfClass(output, class_name)
                   = merge_predictions(OfClass(input, class_name))
        /\ ClassNames(output) \subseteq ClassNames(input)

\* Two classes with overlapping polygons across them, each class reduced
\* to one detection of its own.
C28_Witness ==
    /\ ops = <<"merge_predictions">>
    /\ input = MixedClasses
    /\ Len(output) = 2
    /\ ClassNames(output) = {"mild", "lp"}

----------------------------------------------------------------------------
(* C29 *)

\* C29: merge_predictions returns no more detections than it received, in
\* total and for each class, so filtered_out of get_filtering_statistics
\* is not negative.
C29_NeverMoreThanReceived ==
    RanMerge =>
        LET stats == get_filtering_statistics(input, output)
        IN  /\ stats.filtered_out >= 0
            /\ \A class_name \in DOMAIN stats.class_statistics :
                   stats.class_statistics[class_name].filtered
                       <= stats.class_statistics[class_name].original
            /\ ClassNames(output) \subseteq DOMAIN stats.class_statistics

\* Two polygons of a class that lie apart: their union has two parts, and
\* as many detections come out as went in.
C29_Witness ==
    /\ ops = <<"merge_predictions">>
    /\ Len(input) = 2
    /\ OneClass(input)
    /\ \A i \in DOMAIN input :
           HasValidPolygon(input[i]) /\ input[i].conf # 80
    /\ get_filtering_statistics(input, output).filtered_out = 0
    /\ \A i \in DOMAIN output : output[i].conf = 80

----------------------------------------------------------------------------
(* C30 *)

\* The polygon of the detection is missing, has fewer than 3 points or is
\* invalid.
Unusable(pred) == pred.polygon = <<>> \/ InvalidGeometry(pred)

============================================================================
